---------------------------- MODULE Spec2Model ----------------------------
(***************************************************************************)
(* State-machine model of the stickit-avatar-creator API core, one request *)
(* of a handler at a time against the bucket earlier requests left:        *)
(*   - the image generation routes  POST /generate-avatar and              *)
(*     POST /generate-sticker   (routes/imageGeneration.ts)                *)
(*   - the chat route           POST /chat  (setupChatRoutes)              *)
(* Strings built by concatenation are modelled as sequences of pieces,     *)
(* binary payloads as sequences of bytes, base64 text as sequences of      *)
(* sextets.                                                                *)
(***************************************************************************)
EXTENDS Integers, Sequences, FiniteSets, TLC

VARIABLES
    store,      \* R2 bucket GENERAL_STORAGE_STICKIT_AVATAR_CREATOR: key -> object
    clock,      \* Date.now()
    gpc,        \* position of the generation handler: "idle", "calling", "done"
    greq,       \* request body of the generation request being handled
    contents,   \* `contents` handed to gemini.models.generateContent
    prompt,     \* the handler's local `prompt`
    modelResp,  \* what generateContent returned (or threw)
    httpResp,   \* the HTTP response of the generation handler
    putCount,   \* puts of the handler into the bucket, for the current request
    modelCalls, \* calls of generateContent, for the current request
    calls,      \* number of the generation request being handled
    written,    \* the artifacts put by successful generations, oldest first
    built,      \* what each accepted generation request composed, oldest first
    kvGroups,   \* APP_KV, key user:<id>:groups : the user's group list
    kvConfigs,  \* APP_KV, keys user:<id>:group:<groupId>:configs : config lists
    cpc,        \* position of the chat handler: "idle", "done"
    creq,       \* chat request (session cookie and body)
    catalog,    \* stickerContext built for the chat request
    chatCalls,  \* calls of generateContent by the chat handler
    modelText,  \* what the chat model call gave: `text`, or a throw
    parsedResponse, \* the chat handler's local `parsedResponse`
    chatResp,   \* the HTTP response of the chat handler
    ipc,        \* ImageProcessor: "idle", or "drawn" once the canvas data is read
    image,      \* the canvas bytes as getImageData gave them
    data,       \* `data`, the Uint8ClampedArray removeWhiteBackground works on
    threshold,  \* opts.whiteThreshold
    passes,     \* calls of removeWhiteBackground on `data`
    firstPass,  \* `data` as the first call left it
    kvp,        \* the /sticker-groups requests in progress: route, position, locals
    kvIssued,   \* values drawn from crypto.randomUUID()
    lastSaved,  \* per group, the configuration of the latest put of addConfig
    refStore,   \* the bucket's objects under ref-images/: path -> object
    refResp,    \* the latest answer of POST or DELETE /reference-images
    inputMessage,      \* ChatInterface state: the text of the input
    isLoading,         \* ChatInterface state: the loading flag
    messages,          \* ChatInterface state: the messages shown
    availableStickers, \* ChatInterface state: the stickers of the group
    shown,             \* inputMessage and isLoading as the committed render has them
    inFlight,          \* fetches of /chat that have not settled
    sends              \* requests started by sendMessage

genVars  == <<store, clock, gpc, greq, contents, prompt, modelResp, httpResp, calls, written,
              built, putCount, modelCalls>>
chatVars == <<kvGroups, kvConfigs, cpc, creq, catalog, chatCalls, modelText,
              parsedResponse, chatResp>>
imgVars  == <<ipc, image, data, threshold, passes, firstPass>>
kvpVars  == <<kvp, kvIssued, lastSaved>>
refVars  == <<refStore, refResp>>
uiVars   == <<inputMessage, isLoading, messages, availableStickers, shown, inFlight, sends>>
restVars == <<imgVars, kvpVars, refVars, uiVars>>
vars     == <<genVars, chatVars, restVars>>

Null == "null"          \* undefined / null / absent property

-----------------------------------------------------------------------------
(* Bounds of the model *)

MaxClock == 1           \* Date.now() ranges over 0..MaxClock
MaxParts == 3           \* parts in a model response
MaxRefs == 2            \* reference images listed in a request
MaxLongRefs == 4        \* reference images listed in the longest request
MaxSegs == 3            \* segments of a chat model text
MaxCalls == 2           \* generation requests handled one after the other
MaxData == 8            \* bytes of canvas data (two RGBA pixels)
MaxPasses == 2          \* calls of removeWhiteBackground on one array
MaxSends == 2           \* chat messages sent from the UI

-----------------------------------------------------------------------------
(* Generic helpers *)

Last(s) == s[Len(s)]

RECURSIVE Flatten(_)
Flatten(ss) == IF Len(ss) = 0 THEN <<>> ELSE Head(ss) \o Flatten(Tail(ss))

RECURSIVE SeqsUpTo(_, _)
SeqsUpTo(S, n) ==
    IF n = 0 THEN {<<>>}
    ELSE LET shorter == SeqsUpTo(S, n - 1)
         IN shorter \cup {Append(s, x) : s \in shorter, x \in S}

Contains(s, x) == \E i \in 1..Len(s) : s[i] = x

\* JavaScript truthiness of an optional string property
Truthy(v) == v # Null /\ v # ""

-----------------------------------------------------------------------------
(* base64: btoa(String.fromCharCode(...bytes)) and atob(data) *)

Pad == 64               \* '='
BadChar == 65           \* a character outside the base64 alphabet

RECURSIVE Btoa(_)
Btoa(bytes) ==
    IF Len(bytes) = 0 THEN <<>>
    ELSE LET n  == IF Len(bytes) >= 3 THEN 3 ELSE Len(bytes)
             b  == [i \in 1..3 |-> IF i <= n THEN bytes[i] ELSE 0]
             v  == b[1] * 65536 + b[2] * 256 + b[3]
             g  == << v \div 262144, (v \div 4096) % 64,
                      IF n >= 2 THEN (v \div 64) % 64 ELSE Pad,
                      IF n >= 3 THEN v % 64 ELSE Pad >>
         IN g \o Btoa(SubSeq(bytes, n + 1, Len(bytes)))

StripPad(s) ==
    IF Len(s) % 4 = 0 /\ Len(s) >= 2 /\ s[Len(s)] = Pad
    THEN IF s[Len(s) - 1] = Pad THEN SubSeq(s, 1, Len(s) - 2)
                                ELSE SubSeq(s, 1, Len(s) - 1)
    ELSE s

\* atob throws InvalidCharacterError
AtobThrows(s) ==
    LET t == StripPad(s)
    IN Len(t) % 4 = 1 \/ \E i \in 1..Len(t) : t[i] \notin 0..63

RECURSIVE DecodeGroups(_)
DecodeGroups(t) ==
    IF Len(t) = 0 THEN <<>>
    ELSE LET n == IF Len(t) >= 4 THEN 4 ELSE Len(t)
             g == [i \in 1..4 |-> IF i <= n THEN t[i] ELSE 0]
             v == g[1] * 262144 + g[2] * 4096 + g[3] * 64 + g[4]
             bytes == << v \div 65536, (v \div 256) % 256, v % 256 >>
         IN SubSeq(bytes, 1, (n * 6) \div 8)
              \o DecodeGroups(SubSeq(t, n + 1, Len(t)))

\* atob(base64Data) copied into a Uint8Array
Atob(s) == DecodeGroups(StripPad(s))

-----------------------------------------------------------------------------
(* The content store (R2 bucket) *)

\* Object keys. A key is a string in the code; its parts are kept apart here.
NoKey == [kind |-> "none", group |-> "", time |-> 0, rnd |-> ""]
UploadKey(name) == [kind |-> "upload", group |-> name, time |-> 0, rnd |-> ""]

\* `avatar-${groupId || 'temp'}-${Date.now()}.png`
AvatarFilename(groupId, now) ==
    [kind |-> "avatar", group |-> IF Truthy(groupId) THEN groupId ELSE "temp",
     time |-> now, rnd |-> ""]

\* `sticker-${groupId || 'temp'}-${Date.now()}-${Math.random().toString(36).substring(2)}.png`
StickerFilename(groupId, now, random) ==
    [kind |-> "sticker", group |-> IF Truthy(groupId) THEN groupId ELSE "temp",
     time |-> now, rnd |-> random]

Obj(bytes, contentType) == [bytes |-> bytes, contentType |-> contentType]

\* bucket.put(filename, data, {httpMetadata: {contentType}})
Put(st, key, bytes, contentType) == (key :> Obj(bytes, contentType)) @@ st

ImgA == <<137, 80, 78>>         \* payloads of generated images
ImgB == <<255, 216>>
RefBytes1 == <<71, 73, 70, 56>> \* payloads of uploaded reference images
RefBytes2 == <<66>>

Ref1Key == UploadKey("ref1")
Ref2Key == UploadKey("ref2")
GoneKey == UploadKey("gone")    \* a key with no object behind it
FailKey == UploadKey("fail")    \* a key for which bucket.get rejects
OldAvatarKey == AvatarFilename("g1", 0)

\* Two uploaded reference images (one stored without a content type) and the
\* avatar of an earlier successful /generate-avatar call for group g1.
InitStore ==
    (Ref1Key :> Obj(RefBytes1, "image/png")) @@
    (Ref2Key :> Obj(RefBytes2, Null)) @@
    (OldAvatarKey :> Obj(ImgB, "image/png"))

-----------------------------------------------------------------------------
(* URLs, as far as `new URL(u)`, searchParams.get and pathname read them *)

\* form: "bad" makes `new URL` throw, "empty" is the empty string
Url(form, filePath, filename, last) ==
    [form |-> form, filePath |-> filePath, filename |-> filename, last |-> last]

BadUrl == Url("bad", NoKey, NoKey, NoKey)
EmptyUrl == Url("empty", NoKey, NoKey, NoKey)
\* .../reference-images?filePath=<key>
RefUrl(key) == Url("ok", key, NoKey, NoKey)
\* .../get-avatar-image?filename=<key>
AvatarUrl(key) == Url("ok", NoKey, key, NoKey)
\* .../<key> : no query, the key is the last path segment
PathUrl(key) == Url("ok", NoKey, NoKey, key)
\* a well-formed URL with neither parameter nor a last path segment
PlainUrl == Url("ok", NoKey, NoKey, NoKey)

-----------------------------------------------------------------------------
(* Request bodies *)

Absent == [absent |-> TRUE]     \* a missing object-valued property

StickerData(name, scenario, description, notes) ==
    [name |-> name, scenario |-> scenario, description |-> description, notes |-> notes]

BrandIdentity(avatarType, avatarDescription, personalityTraits) ==
    [avatarType |-> avatarType, avatarDescription |-> avatarDescription,
     personalityTraits |-> personalityTraits]

\* generatedAvatar is Absent or [url |-> u]; referenceImages is a sequence of
\* [url |-> u] (a missing list behaves as the empty list: `x && x.length > 0`);
\* colorPalette is a sequence of <<key, value>> (a missing palette behaves as {}).
AvatarCreation(description, personality, colorPalette, generatedAvatar, referenceImages) ==
    [description |-> description, personality |-> personality,
     colorPalette |-> colorPalette, generatedAvatar |-> generatedAvatar,
     referenceImages |-> referenceImages]

GenRequest(route, bodyOk, stickerData, brandIdentity, avatarCreation, groupId) ==
    [route |-> route, bodyOk |-> bodyOk, stickerData |-> stickerData,
     brandIdentity |-> brandIdentity, avatarCreation |-> avatarCreation,
     groupId |-> groupId]

NoRequest == GenRequest("none", FALSE, Absent, Absent, Absent, Null)

-----------------------------------------------------------------------------
(* Prompt composition *)

\* `${v}` in a template literal
Interp(v) == IF v = Null THEN "undefined" ELSE v

Line(label, v) == <<label, v, "\n">>
OptLine(label, v) == IF Truthy(v) THEN Line(label, v) ELSE <<>>

RECURSIVE JoinPieces(_, _)
JoinPieces(items, sep) ==
    IF Len(items) = 0 THEN <<>>
    ELSE IF Len(items) = 1 THEN Head(items)
    ELSE Head(items) \o <<sep>> \o JoinPieces(Tail(items), sep)

\* Object.entries(colorPalette).filter(([_, value]) => value)
\*    .map(([key, value]) => `${key}: ${value}`).join(', ')
Colors(colorPalette) ==
    LET kept == SelectSeq(colorPalette, LAMBDA e : Truthy(e[2]))
    IN JoinPieces([i \in 1..Len(kept) |-> <<kept[i][1], ": ", kept[i][2]>>], ", ")

PaletteLine(colorPalette) ==
    IF Len(Colors(colorPalette)) > 0
    THEN <<"Color Palette: ">> \o Colors(colorPalette) \o <<"\n">>
    ELSE <<>>

TraitsLine(traits) ==
    IF Len(traits) > 0
    THEN <<"Personality Traits: ">>
           \o JoinPieces([i \in 1..Len(traits) |-> <<traits[i]>>], ", ") \o <<"\n">>
    ELSE <<>>

\* /generate-avatar: `prompt` before the reference images are looked at
AvatarPrompt(r) ==
    LET ac == r.avatarCreation
        bi == r.brandIdentity
    IN  <<"AVATAR_INTENT", "=== AVATAR CHARACTER DESIGN (PRIMARY) ===\n">>
        \o OptLine("Avatar Description: ", ac.description)
        \o OptLine("Avatar Personality: ", ac.personality)
        \o PaletteLine(ac.colorPalette)
        \o <<"\n=== BRAND CONTEXT (SUPPORTING) ===\n">>
        \o OptLine("Avatar Type: ", bi.avatarType)
        \o OptLine("Purpose: ", bi.avatarDescription)
        \o <<"AVATAR_TECHNICAL_REQUIREMENTS">>

AvatarRefClause == "IMPORTANT: Use the provided reference images as visual inspiration for the avatar design."

\* /generate-sticker: `prompt` before the images are looked at
StickerPrompt(r) ==
    LET sd == r.stickerData
        ac == r.avatarCreation
        bi == r.brandIdentity
    IN  <<"STICKER_INTENT",
          "=== GENERATED AVATAR (ABSOLUTE PRIMARY REFERENCE) ===\n",
          "CRITICAL: The generated avatar image provided below is the EXACT character",
          "=== STICKER SPECIFIC DETAILS ===\n">>
        \o Line("Sticker Name: ", Interp(sd.name))
        \o Line("Usage Scenario: ", Interp(sd.scenario))
        \o OptLine("Description: ", sd.description)
        \o OptLine("Additional Notes: ", sd.notes)
        \o <<"\n=== AVATAR CHARACTER DESIGN (SUPPORTING CONTEXT) ===\n">>
        \o OptLine("Avatar Description: ", ac.description)
        \o OptLine("Avatar Personality: ", ac.personality)
        \o PaletteLine(ac.colorPalette)
        \o <<"\n=== BRAND CONTEXT (ADDITIONAL SUPPORT) ===\n">>
        \o OptLine("Avatar Type: ", bi.avatarType)
        \o OptLine("Avatar Purpose: ", bi.avatarDescription)
        \o TraitsLine(bi.personalityTraits)
        \o <<"STICKER_TECHNICAL_REQUIREMENTS">>

StickerAvatarClause == "CRITICAL INSTRUCTIONS: The FIRST image provided is the generated avatar"
StickerRefClause == "IMPORTANT: Use the provided reference images as visual inspiration for the sticker design."

-----------------------------------------------------------------------------
(* Building `contents` *)

TextPart(p) == [text |-> p]

\* {inlineData: {mimeType: obj.httpMetadata?.contentType || dflt, data: btoa(...)}}
ImagePart(obj, dflt) ==
    [inlineData |-> [mimeType |-> IF Truthy(obj.contentType) THEN obj.contentType ELSE dflt,
                     data |-> Btoa(obj.bytes)]]

IsImagePart(p) == "inlineData" \in DOMAIN p

\* One pass of the reference image loop body: the parts it pushes (none or one).
\* `new URL` or bucket.get throwing is caught inside the loop.
RefParts(st, refImage) ==
    LET u == refImage.url
    IN  IF u.form # "ok" THEN <<>>
        ELSE IF u.filePath = NoKey THEN <<>>
        ELSE IF u.filePath = FailKey THEN <<>>
        ELSE IF u.filePath \notin DOMAIN st THEN <<>>
        ELSE <<ImagePart(st[u.filePath], "image/jpeg")>>

\* Mutant: the loop ends at the first reference image that does not resolve
RECURSIVE RefPartsUntilFailure(_, _)
RefPartsUntilFailure(st, refs) ==
    IF Len(refs) = 0 \/ RefParts(st, Head(refs)) = <<>> THEN <<>>
    ELSE RefParts(st, Head(refs)) \o RefPartsUntilFailure(st, Tail(refs))

\* for (const refImage of avatarCreation.referenceImages) { ... }
RECURSIVE AllRefParts(_, _)
AllRefParts(st, refs) ==
    IF Len(refs) = 0 THEN <<>>
    ELSE RefParts(st, Head(refs)) \o AllRefParts(st, Tail(refs))

\* avatarCreation.generatedAvatar && avatarCreation.generatedAvatar.url
HasGeneratedAvatar(ac) ==
    ac.generatedAvatar # Absent /\ ac.generatedAvatar.url.form # "empty"

\* searchParams.get('filename') || pathname.split('/').pop()
AvatarFilenameOf(u) == IF u.filename # NoKey THEN u.filename ELSE u.last

\* The parts pushed for the generated avatar (none or one)
GeneratedAvatarParts(st, ac) ==
    IF ~HasGeneratedAvatar(ac) THEN <<>>
    ELSE LET u == ac.generatedAvatar.url
         IN  IF u.form # "ok" THEN <<>>
             ELSE IF AvatarFilenameOf(u) = NoKey THEN <<>>
             ELSE IF AvatarFilenameOf(u) = FailKey THEN <<>>
             ELSE IF AvatarFilenameOf(u) \notin DOMAIN st THEN <<>>
             ELSE <<ImagePart(st[AvatarFilenameOf(u)], "image/png")>>

\* /generate-avatar: contents = [prompt, ...reference images]
AvatarContents(st, r) ==
    <<TextPart(AvatarPrompt(r))>> \o AllRefParts(st, r.avatarCreation.referenceImages)

\* Mutant: the prompt carries the time of the request
AvatarFinalPromptDated(st, r) ==
    IF Len(r.avatarCreation.referenceImages) > 0 /\ Len(AvatarContents(st, r)) > 1
    THEN AvatarPrompt(r) \o <<AvatarRefClause, "Generated at ", ToString(clock)>>
    ELSE AvatarPrompt(r) \o <<"Generated at ", ToString(clock)>>

\* /generate-avatar: `prompt` at the time of the model call
AvatarFinalPrompt(st, r) ==
    IF Len(r.avatarCreation.referenceImages) > 0 /\ Len(AvatarContents(st, r)) > 1
    THEN Append(AvatarPrompt(r), AvatarRefClause)
    ELSE AvatarPrompt(r)

\* Mutant: the reference images are pushed before the generated avatar
StickerContentsRefsFirst(st, r) ==
    <<TextPart(StickerPrompt(r))>>
      \o AllRefParts(st, r.avatarCreation.referenceImages)
      \o GeneratedAvatarParts(st, r.avatarCreation)

\* /generate-sticker: contents = [prompt, generated avatar?, ...reference images]
StickerContents(st, r) ==
    <<TextPart(StickerPrompt(r))>>
      \o GeneratedAvatarParts(st, r.avatarCreation)
      \o AllRefParts(st, r.avatarCreation.referenceImages)

\* /generate-sticker: `prompt` at the time of the model call
StickerFinalPrompt(st, r) ==
    IF Len(r.avatarCreation.referenceImages) > 0 /\ Len(StickerContents(st, r)) > 1
    THEN Append(StickerPrompt(r),
                IF HasGeneratedAvatar(r.avatarCreation) THEN StickerAvatarClause
                                                         ELSE StickerRefClause)
    ELSE StickerPrompt(r)

-----------------------------------------------------------------------------
(* Inputs of the generation routes *)

RichSticker == StickerData("Goodnight", "saying goodnight", "sleepy fox", "moon behind")
BareSticker == StickerData("Hello", "waving hello", Null, Null)
RichBrand == BrandIdentity("mascot", "support helper", <<"kind", "calm">>)
BareBrand == BrandIdentity(Null, "", <<>>)
RichPalette == << <<"primary", "red">>, <<"secondary", "">>, <<"accent", "gold">> >>

GeneratedAvatars ==
    { Absent, [url |-> EmptyUrl], [url |-> BadUrl], [url |-> PlainUrl],
      [url |-> AvatarUrl(OldAvatarKey)], [url |-> AvatarUrl(GoneKey)],
      [url |-> PathUrl(OldAvatarKey)] }

ReferenceImage ==
    { [url |-> u] : u \in {RefUrl(Ref1Key), RefUrl(Ref2Key), RefUrl(GoneKey),
                           PlainUrl, BadUrl} }

ReferenceImageLists == SeqsUpTo(ReferenceImage, MaxRefs)

\* Requests listing more reference images than MaxRefs, all of them stored
LongRefs(n) ==
    [i \in 1..n |-> [url |-> RefUrl(IF i % 2 = 1 THEN Ref1Key ELSE Ref2Key)]]
LongReferenceLists == { LongRefs(n) : n \in (MaxRefs + 1)..MaxLongRefs }

GroupIds == {"g1", Null}

\* Two fillings of the text fields: every optional field given, none given
Profiles ==
    { [sticker |-> RichSticker, brand |-> RichBrand, description |-> "a small fox",
       personality |-> "cheerful", palette |-> RichPalette],
      [sticker |-> BareSticker, brand |-> BareBrand, description |-> Null,
       personality |-> "", palette |-> <<>>] }

StickerRequestsOver(avatars, refLists) ==
    { GenRequest("sticker", TRUE, p.sticker, p.brand,
                 AvatarCreation(p.description, p.personality, p.palette, ga, refs), g) :
        p \in Profiles, ga \in avatars, refs \in refLists, g \in GroupIds }

AvatarRequestsOver(refLists) ==
    { GenRequest("avatar", TRUE, Absent, p.brand,
                 AvatarCreation(p.description, p.personality, p.palette, Absent, refs), g) :
        p \in Profiles, refs \in refLists, g \in GroupIds }

StickerRequests == StickerRequestsOver(GeneratedAvatars, ReferenceImageLists)
AvatarRequests == AvatarRequestsOver(ReferenceImageLists)

SomeAvatarCreation == AvatarCreation("a small fox", Null, <<>>, Absent, <<>>)

\* Bodies that are not JSON, and bodies lacking a required object
RejectedRequests ==
    { GenRequest(route, FALSE, Absent, Absent, Absent, Null) : route \in {"avatar", "sticker"} }
    \cup { GenRequest("avatar", TRUE, Absent, Absent, SomeAvatarCreation, "g1"),
           GenRequest("avatar", TRUE, Absent, RichBrand, Absent, "g1"),
           GenRequest("sticker", TRUE, Absent, RichBrand, SomeAvatarCreation, "g1"),
           GenRequest("sticker", TRUE, RichSticker, Absent, SomeAvatarCreation, "g1"),
           GenRequest("sticker", TRUE, RichSticker, RichBrand, Absent, "g1") }

LongRequests ==
    StickerRequestsOver({Absent, [url |-> AvatarUrl(OldAvatarKey)]}, LongReferenceLists)
    \cup AvatarRequestsOver(LongReferenceLists)

GenRequests == StickerRequests \cup AvatarRequests \cup LongRequests \cup RejectedRequests

\* A few requests of each shape, for the runs that vary the model's answer
CoreRequests ==
    StickerRequestsOver({Absent, [url |-> AvatarUrl(OldAvatarKey)]},
                        {<<>>, <<[url |-> RefUrl(Ref1Key)]>>})
    \cup AvatarRequestsOver({<<>>, <<[url |-> RefUrl(Ref1Key)]>>})
    \cup RejectedRequests

(* What gemini.models.generateContent can give back *)

ResponsePart ==
    { [text |-> "Here is your image"] }
    \cup { [inlineData |-> [mimeType |-> "image/png", data |-> d]] :
             d \in {Btoa(ImgA), Btoa(ImgB), <<>>, <<19, BadChar, 4, 7>>} }

ModelResponse(kind, parts) == [kind |-> kind, parts |-> parts]

ModelResponses ==
    { ModelResponse(k, <<>>) : k \in {"throws", "no candidates", "no parts"} }
    \cup { ModelResponse("parts", ps) : ps \in SeqsUpTo(ResponsePart, MaxParts) }

\* A few answers of each shape, for the runs that vary the request
CoreResponses ==
    { ModelResponse("throws", <<>>), ModelResponse("no candidates", <<>>),
      ModelResponse("parts", <<>>),
      ModelResponse("parts", <<[inlineData |-> [mimeType |-> "image/png",
                                                data |-> Btoa(ImgA)]]>>) }

NoResponse == ModelResponse("none", <<>>)

RandomSuffixes == {"k3x", "q9z", "m1p"}    \* Math.random().toString(36).substring(2)

-----------------------------------------------------------------------------
(* The generation handlers *)

HttpResponse(route, status, error, filename, size, usedPrompt, id) ==
    [route |-> route, status |-> status, error |-> error, filename |-> filename,
     size |-> size, prompt |-> usedPrompt, id |-> id]

NoHttpResponse == HttpResponse("none", 0, "", NoKey, 0, <<>>, -1)

ErrorResponse(route, status, error) == HttpResponse(route, status, error, NoKey, 0, <<>>, -1)

\* if (!brandIdentity || !avatarCreation)   /   if (!stickerData || !brandIdentity || !avatarCreation)
MissingRequiredData(r) ==
    \/ r.brandIdentity = Absent
    \/ r.avatarCreation = Absent
    \/ r.route = "sticker" /\ r.stickerData = Absent

\* Mutant: `if (part.inlineData)`, an empty payload counts as an image
HasInlineDataObject(part) == IsImagePart(part)

\* part.inlineData?.data
HasInlineData(part) == IsImagePart(part) /\ Len(part.inlineData.data) > 0

\* Mutant: the loop has no `break`, the last image part wins
RECURSIVE ExtractLastFrom(_, _)
ExtractLastFrom(parts, i) ==
    IF i > Len(parts) THEN 0
    ELSE IF ExtractLastFrom(parts, i + 1) > 0 THEN ExtractLastFrom(parts, i + 1)
    ELSE IF HasInlineData(parts[i]) THEN i
    ELSE 0

\* for (const part of parts) { if (part.inlineData?.data) { ...; break } } :
\* the index of the part the loop stops at, 0 when it runs to the end
RECURSIVE ExtractFrom(_, _)
ExtractFrom(parts, i) ==
    IF i > Len(parts) THEN 0
    ELSE IF HasInlineData(parts[i]) THEN i
    ELSE ExtractFrom(parts, i + 1)

\* response.candidates && response.candidates[0]?.content?.parts
ExtractedIndex(resp) == IF resp.kind = "parts" THEN ExtractFrom(resp.parts, 1) ELSE 0

\* The handler up to `await gemini.models.generateContent(...)`
HandleRequest(r) ==
    /\ gpc = "idle"
    /\ greq' = r
    /\ modelResp' = NoResponse
    /\ putCount' = 0
    /\ UNCHANGED <<store, clock, calls, written, chatVars, restVars>>
    /\ IF ~r.bodyOk
       THEN /\ httpResp' = ErrorResponse(r.route, 500, "generation failed")
            /\ gpc' = "done" /\ modelCalls' = 0
            /\ contents' = <<>> /\ prompt' = <<>>
       ELSE IF MissingRequiredData(r)
       THEN /\ httpResp' = ErrorResponse(r.route, 400, "Missing required data")
            /\ gpc' = "done" /\ modelCalls' = 0
            /\ contents' = <<>> /\ prompt' = <<>>
       ELSE /\ httpResp' = NoHttpResponse
            /\ gpc' = "calling" /\ modelCalls' = 1
            /\ contents' = IF r.route = "avatar" THEN AvatarContents(store, r)
                                                 ELSE StickerContents(store, r)
            /\ prompt' = IF r.route = "avatar" THEN AvatarFinalPrompt(store, r)
                                               ELSE StickerFinalPrompt(store, r)

Receive(r) == HandleRequest(r) /\ UNCHANGED built

\* The same step, with what was composed added to the log
ReceiveLogged(r) ==
    /\ HandleRequest(r)
    /\ built' = IF ~r.bodyOk \/ MissingRequiredData(r) THEN built
                ELSE Append(built, [req |-> r, store |-> store, clock |-> clock,
                                    call |-> calls, prompt |-> prompt',
                                    contents |-> contents'])

\* id: Date.now().toString() of the sticker result; /generate-avatar returns no id
StickerId(route, idTime) == IF route = "sticker" THEN ToString(idTime) ELSE ""

\* Mutant: the image is saved before `if (!imageData)` is looked at
FinishPutFirst(route, filename, resp, putThrows, idTime) ==
    LET i == ExtractedIndex(resp)
    IN  IF resp.kind = "throws" \/ (i > 0 /\ AtobThrows(resp.parts[i].inlineData.data))
        THEN /\ httpResp' = ErrorResponse(route, 500, "generation failed")
             /\ UNCHANGED <<store, putCount, clock, written>>
        ELSE IF putThrows
        THEN /\ httpResp' = ErrorResponse(route, 500, "generation failed")
             /\ UNCHANGED <<store, putCount, clock, written>>
        ELSE LET imageData == IF i = 0 THEN <<>> ELSE Atob(resp.parts[i].inlineData.data)
             IN  /\ store' = Put(store, filename, imageData, "image/png")
                 /\ putCount' = putCount + 1
                 /\ written' = Append(written, [key |-> filename, bytes |-> imageData,
                                                    id |-> StickerId(route, idTime)])
                 /\ clock' = IF route = "sticker" /\ i > 0 THEN idTime ELSE clock
                 /\ httpResp' =
                      IF i = 0
                      THEN ErrorResponse(route, 500, "Failed to generate from Gemini")
                      ELSE HttpResponse(route, 200, "", filename, Len(imageData),
                                        IF route = "avatar" THEN prompt ELSE <<>>,
                                        IF route = "sticker" THEN idTime ELSE -1)

\* Mutant: a throw of put is not caught, the handler gives no response
FinishUncaughtPut(route, filename, resp, putThrows, idTime) ==
    LET i == ExtractedIndex(resp)
    IN  IF resp.kind = "throws" \/ (i > 0 /\ AtobThrows(resp.parts[i].inlineData.data))
        THEN /\ httpResp' = ErrorResponse(route, 500, "generation failed")
             /\ UNCHANGED <<store, putCount, clock, written>>
        ELSE IF i = 0
        THEN /\ httpResp' = ErrorResponse(route, 500, "Failed to generate from Gemini")
             /\ UNCHANGED <<store, putCount, clock, written>>
        ELSE IF putThrows
        THEN /\ httpResp' = NoHttpResponse
             /\ UNCHANGED <<store, putCount, clock, written>>
        ELSE LET imageData == Atob(resp.parts[i].inlineData.data)
             IN  /\ store' = Put(store, filename, imageData, "image/png")
                 /\ putCount' = putCount + 1
                 /\ written' = Append(written, [key |-> filename, bytes |-> imageData,
                                                    id |-> StickerId(route, idTime)])
                 /\ clock' = IF route = "sticker" THEN idTime ELSE clock
                 /\ httpResp' = HttpResponse(route, 200, "", filename, Len(imageData),
                                    IF route = "avatar" THEN prompt ELSE <<>>,
                                    IF route = "sticker" THEN idTime ELSE -1)

\* From the extraction loop to the HTTP response: the catch block on a throw
\* (of generateContent, atob or put), the 500 of `if (!imageData)`, or the
\* put and the success body
Finish(route, filename, resp, putThrows, idTime) ==
    LET i == ExtractedIndex(resp)
    IN  IF resp.kind = "throws" \/ (i > 0 /\ AtobThrows(resp.parts[i].inlineData.data))
        THEN /\ httpResp' = ErrorResponse(route, 500, "generation failed")
             /\ UNCHANGED <<store, putCount, clock, written>>
        ELSE IF i = 0
        THEN /\ httpResp' = ErrorResponse(route, 500, "Failed to generate from Gemini")
             /\ UNCHANGED <<store, putCount, clock, written>>
        ELSE IF putThrows
        THEN /\ httpResp' = ErrorResponse(route, 500, "generation failed")
             /\ UNCHANGED <<store, putCount, clock, written>>
        ELSE LET imageData == Atob(resp.parts[i].inlineData.data)
             IN  /\ store' = Put(store, filename, imageData, "image/png")
                 /\ putCount' = putCount + 1
                 /\ written' = Append(written, [key |-> filename, bytes |-> imageData,
                                                    id |-> StickerId(route, idTime)])
                 /\ clock' = IF route = "sticker" THEN idTime ELSE clock
                 /\ httpResp' = HttpResponse(route, 200, "", filename, Len(imageData),
                                    IF route = "avatar" THEN prompt ELSE <<>>,
                                    IF route = "sticker" THEN idTime ELSE -1)

\* Mutant: generateContent is called once more when the answer has no image
RespondRetrying(resp, random, putThrows, idTime) ==
    /\ gpc = "calling"
    /\ idTime >= clock
    /\ modelResp' = resp
    /\ gpc' = "done"
    /\ greq' = NoRequest /\ contents' = <<>> /\ prompt' = <<>>
    /\ modelCalls' = IF ExtractedIndex(resp) = 0 THEN modelCalls + 1 ELSE modelCalls
    /\ UNCHANGED <<calls, built, chatVars, restVars>>
    /\ Finish(greq.route,
              IF greq.route = "avatar" THEN AvatarFilename(greq.groupId, clock)
              ELSE StickerFilename(greq.groupId, clock, random),
              resp, putThrows, idTime)

\* The handler from the return of generateContent to its HTTP response.
\* Nothing after the model call reads the request except groupId, which names
\* the file here.
Respond(resp, random, putThrows, idTime) ==
    /\ gpc = "calling"
    /\ idTime >= clock
    /\ modelResp' = resp
    /\ gpc' = "done"
    /\ greq' = NoRequest /\ contents' = <<>> /\ prompt' = <<>>
    /\ UNCHANGED <<modelCalls, calls, built, chatVars, restVars>>
    /\ Finish(greq.route,
              IF greq.route = "avatar" THEN AvatarFilename(greq.groupId, clock)
              ELSE StickerFilename(greq.groupId, clock, random),
              resp, putThrows, idTime)

\* Time passes
Tick ==
    /\ clock < MaxClock
    /\ clock' = clock + 1
    /\ UNCHANGED <<store, gpc, greq, contents, prompt, modelResp, httpResp,
                   putCount, modelCalls, calls, written, built, chatVars, restVars>>

\* The handler is entered again: the previous request has been answered
NextCall ==
    /\ gpc = "done"
    /\ calls < MaxCalls
    /\ calls' = calls + 1
    /\ gpc' = "idle"
    /\ greq' = NoRequest /\ contents' = <<>> /\ prompt' = <<>>
    /\ modelResp' = NoResponse /\ httpResp' = NoHttpResponse
    /\ putCount' = 0 /\ modelCalls' = 0
    /\ UNCHANGED <<store, clock, written, built, chatVars, restVars>>

-----------------------------------------------------------------------------
(* POST /chat : the stored catalog *)

Sticker(id, name) == [id |-> id, name |-> name]

\* A GroupConfig, as far as /chat reads it: input.stickerGeneration?.stickers || []
Config(stickers) == [stickers |-> stickers]

\* `sticker-${index}`
DefaultIds == <<"sticker-0", "sticker-1", "sticker-2", "sticker-3">>

\* stickers.map((sticker, index) => ({id: sticker.id || `sticker-${index}`, ...}))
StickerContext(stickers) ==
    [i \in 1..Len(stickers) |->
        Sticker(IF Truthy(stickers[i].id) THEN stickers[i].id ELSE DefaultIds[i],
                stickers[i].name)]

ChatGroupIds == {"g1", "g2", "g3", "g4", "gX"}

\* The user's groups: g1 with a current and an older configuration, g2 whose
\* stickers were saved without ids, g3 whose configuration lists no sticker,
\* g4 without any configuration. gX is no group of the user.
InitGroups ==
    << [id |-> "g1", name |-> "Foxes"], [id |-> "g2", name |-> "Untitled"],
       [id |-> "g3", name |-> "Empty"], [id |-> "g4", name |-> "New"] >>

InitConfigs ==
    [g \in ChatGroupIds |->
        CASE g = "g1" -> << Config(<<Sticker("s1", "Goodnight"), Sticker("s2", "Hello"),
                                     Sticker("s3", "Thanks")>>),
                            Config(<<Sticker("s0", "Draft")>>) >>
          [] g = "g2" -> << Config(<<Sticker(Null, "Wave"), Sticker("", "Nod")>>) >>
          [] g = "g3" -> << Config(<<>>) >>
          [] OTHER    -> <<>> ]

\* Mutant: the group list is not consulted
GroupAssumedFound(groups, groupId) == TRUE

\* UserKV.getGroupById: list.find(g => g.id === groupId) ?? null
GroupFound(groups, groupId) == \E i \in 1..Len(groups) : groups[i].id = groupId

-----------------------------------------------------------------------------
(* POST /chat : inputs *)

ChatTurn(role, content, stickerIds) ==
    [role |-> role, content |-> content, stickerIds |-> stickerIds]

\* Text is a sequence of segments. "text" holds no brace; "open" is a stray
\* '{' and "close" a stray '}'; "obj" is the text of one JSON object (it starts
\* with '{', ends with '}' and holds no other brace) and `obj` is what
\* JSON.parse makes of it; "broken" starts with '{' and ends with '}' with
\* something that is not JSON between; "default" is the handler's stock reply.
NoObj == [message |-> Null, stickerIds |-> [type |-> "undefined", items |-> <<>>]]
Seg(kind) == [seg |-> kind, obj |-> NoObj]
ObjSeg(message, type, items) ==
    [seg |-> "obj", obj |-> [message |-> message,
                             stickerIds |-> [type |-> type, items |-> items]]]

\* The message of a reply: undefined, or a text
NoMessage == [defined |-> FALSE, text |-> <<>>]
Message(text) == [defined |-> TRUE, text |-> text]

JsonObjects ==
    { ObjSeg("hi", "array", <<"s1">>),
      ObjSeg("hi", "array", <<"zz", "s2", "s1">>),
      ObjSeg("hi", "array", <<"zz">>),
      ObjSeg("hi", "array", <<"sticker-1", "sticker-0">>),
      ObjSeg("hi", "undefined", <<>>),
      ObjSeg("hi", "string", <<"s1">>),
      ObjSeg(Null, "array", <<>>) }

Segments == {Seg("text"), Seg("open"), Seg("close"), Seg("broken")} \cup JsonObjects

\* response.candidates?.[0]?.content?.parts?.[0]?.text || ''  (or the call throws)
ChatOutput(threw, text) == [threw |-> threw, text |-> text]
ChatOutputs ==
    {ChatOutput(TRUE, <<>>)} \cup {ChatOutput(FALSE, t) : t \in SeqsUpTo(Segments, MaxSegs)}
NoChatOutput == ChatOutput(FALSE, <<>>)

ChatRequest(session, bodyOk, message, groupId, conversationHistory) ==
    [session |-> session, bodyOk |-> bodyOk, message |-> message, groupId |-> groupId,
     conversationHistory |-> conversationHistory]

NoChatRequest == ChatRequest(FALSE, FALSE, Null, Null, <<>>)

Histories ==
    { <<>>,
      << ChatTurn("user", Message(<<Seg("text")>>), <<>>),
         ChatTurn("assistant", Message(<<Seg("text")>>), <<"s3">>) >> }

ChatRequests ==
    { ChatRequest(TRUE, TRUE, "hello", g, h) : g \in ChatGroupIds, h \in Histories }
    \cup { ChatRequest(TRUE, TRUE, "thanks", "g1", <<>>),
           ChatRequest(FALSE, TRUE, "hello", "g1", <<>>),
           ChatRequest(TRUE, FALSE, Null, Null, <<>>),
           ChatRequest(TRUE, TRUE, "", "g1", <<>>),
           ChatRequest(TRUE, TRUE, "hello", Null, <<>>) }

-----------------------------------------------------------------------------
(* POST /chat : parsing the model text *)

HasOpen(s) == s.seg \in {"obj", "broken", "open"}       \* the segment holds a '{'
HasClose(s) == s.seg \in {"obj", "broken", "close"}     \* the segment holds a '}'

RECURSIVE FirstOpenFrom(_, _)
FirstOpenFrom(text, i) ==
    IF i > Len(text) THEN 0
    ELSE IF HasOpen(text[i]) THEN i ELSE FirstOpenFrom(text, i + 1)

RECURSIVE LastCloseFrom(_, _)
LastCloseFrom(text, i) ==
    IF i < 1 THEN 0
    ELSE IF HasClose(text[i]) THEN i ELSE LastCloseFrom(text, i - 1)

\* text.match(/\{[\s\S]*\}/) : greedy, from the first '{' to the last '}';
\* <<>> stands for null (no match)
JsonMatch(text) ==
    LET i == FirstOpenFrom(text, 1)
        j == LastCloseFrom(text, Len(text))
    IN  IF i > 0 /\ j >= i THEN SubSeq(text, i, j) ELSE <<>>

\* JSON.parse(jsonMatch[0]) throws unless the span is exactly one object
JsonParseThrows(span) == ~(Len(span) = 1 /\ span[1].seg = "obj")
JsonParse(span) == span[1].obj

ParsedResponse(message, stickerIds, reasoning) ==
    [message |-> message, stickerIds |-> stickerIds, reasoning |-> reasoning]

NoParsedResponse == ParsedResponse(NoMessage, NoObj.stickerIds, "none")

FallbackReasoning == "Using fallback due to parsing error"
DefaultMessage == <<Seg("default")>>

\* The catch block: {message: text || "I'm here to help! ...",
\*                   stickerIds: randomSticker ? [randomSticker.id] : [], reasoning}
FallbackResponse(text, ctx, pick) ==
    ParsedResponse(Message(IF Len(text) > 0 THEN text ELSE DefaultMessage),
                   [type |-> "array",
                    items |-> IF Len(ctx) > 0 THEN <<ctx[pick].id>> ELSE <<>>],
                   FallbackReasoning)

\* parsedResponse after the try/catch
Parse(text, ctx, pick) ==
    IF JsonMatch(text) = <<>> \/ JsonParseThrows(JsonMatch(text))
    THEN FallbackResponse(text, ctx, pick)
    ELSE LET o == JsonParse(JsonMatch(text))
         IN  ParsedResponse(IF o.message = Null THEN NoMessage
                            ELSE Message(<<Seg("text")>>),
                            o.stickerIds, "model")

\* parsedResponse.stickerIds?.filter(...) throws a TypeError when stickerIds is
\* neither nullish nor an array
FilterThrows(stickerIds) == stickerIds.type \notin {"array", "undefined"}

InCatalog(ctx, id) == \E i \in 1..Len(ctx) : ctx[i].id = id

\* Mutant: the ids are not checked against the catalog
UnvalidatedStickerIds(stickerIds, ctx) == stickerIds.items

\* parsedResponse.stickerIds?.filter(id => stickerContext.some(s => s.id === id)) || []
ValidStickerIds(stickerIds, ctx) ==
    IF stickerIds.type = "array"
    THEN SelectSeq(stickerIds.items, LAMBDA id : InCatalog(ctx, id))
    ELSE <<>>

\* Mutant: slice(-1), the last valid id
LastOne(ids) == IF Len(ids) = 0 THEN <<>> ELSE <<ids[Len(ids)]>>

\* validStickerIds.slice(0, 1)
FirstOne(ids) == IF Len(ids) = 0 THEN <<>> ELSE <<ids[1]>>

\* Mutant: no random sticker is added
WithoutRandomSticker(single, ctx, pick) == single

\* if (singleStickerId.length === 0 && stickerContext.length > 0) push a random id
WithRandomSticker(single, ctx, pick) ==
    IF Len(single) = 0 /\ Len(ctx) > 0 THEN <<ctx[pick].id>> ELSE single

-----------------------------------------------------------------------------
(* POST /chat : the handler *)

ChatResponse(status, error, message, stickerIds, conversationHistory) ==
    [status |-> status, error |-> error, message |-> message, stickerIds |-> stickerIds,
     conversationHistory |-> conversationHistory]

ChatError(status, error) == ChatResponse(status, error, NoMessage, <<>>, <<>>)
NoChatResponse == ChatError(0, "")

\* Math.floor(Math.random() * stickerContext.length), as an index from 1
Picks(ctx) == IF Len(ctx) = 0 THEN {0} ELSE 1..Len(ctx)

\* The text of an incoming message: one piece, the message itself
UserText(message) == <<[seg |-> message, obj |-> NoObj]>>

\* Mutant: the assistant turn is put before the user turn
HistoryAssistantFirst(history, message, reply, stickerIds) ==
    history \o << ChatTurn("assistant", reply, stickerIds),
                  ChatTurn("user", Message(UserText(message)), <<>>) >>

\* [...conversationHistory, {role: 'user', content: message},
\*  {role: 'assistant', content: parsedResponse.message, stickerIds: singleStickerId}]
NewConversationHistory(history, message, reply, stickerIds) ==
    history \o << ChatTurn("user", Message(UserText(message)), <<>>),
                  ChatTurn("assistant", reply, stickerIds) >>

\* Replies given before the model is called
ChatRejects(r, status, error) ==
    /\ chatResp' = ChatError(status, error)
    /\ chatCalls' = 0
    /\ modelText' = NoChatOutput
    /\ parsedResponse' = NoParsedResponse

\* The whole handler of POST /chat; `out` is what the model call gives
Chat(r, out) ==
    /\ cpc = "idle"
    /\ cpc' = "done"
    /\ creq' = r
    /\ UNCHANGED <<kvGroups, kvConfigs, genVars, restVars>>
    /\ IF ~r.session
       THEN catalog' = <<>> /\ ChatRejects(r, 400, "missing session cookie sticket-sid")
       ELSE IF ~r.bodyOk \/ ~Truthy(r.message) \/ ~Truthy(r.groupId)
       THEN catalog' = <<>> /\ ChatRejects(r, 400, "message and groupId are required")
       ELSE IF ~GroupFound(kvGroups, r.groupId)
       THEN catalog' = <<>> /\ ChatRejects(r, 404, "sticker group not found")
       ELSE IF Len(kvConfigs[r.groupId]) = 0
       THEN catalog' = <<>> /\ ChatRejects(r, 404, "no sticker configuration found")
       ELSE IF Len(kvConfigs[r.groupId][1].stickers) = 0
       THEN catalog' = <<>> /\ ChatRejects(r, 404, "no stickers found in this group")
       ELSE LET ctx == StickerContext(kvConfigs[r.groupId][1].stickers)
            IN  /\ catalog' = ctx
                /\ chatCalls' = 1
                /\ modelText' = out
                /\ IF out.threw
                   THEN /\ parsedResponse' = NoParsedResponse
                        /\ chatResp' = ChatError(500, "Failed to process chat message")
                   ELSE \E pick1 \in Picks(ctx), pick2 \in Picks(ctx) :
                          LET parsed == Parse(out.text, ctx, pick1)
                              single == WithRandomSticker(
                                          FirstOne(ValidStickerIds(parsed.stickerIds, ctx)),
                                          ctx, pick2)
                          IN  /\ parsedResponse' = parsed
                              /\ IF FilterThrows(parsed.stickerIds)
                                 THEN chatResp' = ChatError(500, "Failed to process chat message")
                                 ELSE chatResp' =
                                        ChatResponse(200, "", parsed.message, single,
                                          NewConversationHistory(r.conversationHistory,
                                            r.message, parsed.message, single))

-----------------------------------------------------------------------------
(* UserKV and the /sticker-groups routes: each request is a process that
   stops at every await of a KV read, put or delete *)

Procs == {"p1", "p2"}

\* crypto.randomUUID(): the n-th value drawn; no value comes twice
Uuid(n) == "u" \o ToString(n)

\* body.input and body.imageUrls of POST /sticker-groups/:id, as far as the
\* routes read them: input.stickerGeneration?.stickers || []
Input(present, stickers, imageUrls) ==
    [present |-> present, stickers |-> stickers, imageUrls |-> imageUrls]
NoInput == Input(FALSE, <<>>, FALSE)

\* A GroupConfig made by addConfig: {id, groupId, input, imageUrls, createdAt}
SavedConfig(id, stickers) == [id |-> id, stickers |-> stickers]
NoItem == [id |-> ""]

IdleProc ==
    [op |-> "none", pc |-> "idle", groupId |-> "", name |-> Null, input |-> NoInput,
     list |-> <<>>, item |-> NoItem, found |-> FALSE, status |-> 0, latest |-> NoItem]

\* Each process handles one request; the first request goes to p1
CanStart(p) ==
    /\ kvp[p].pc = "idle"
    /\ p = "p2" => kvp["p1"].pc # "idle"

Started(p, op, session, groupId, name, input, pc) ==
    kvp' = [kvp EXCEPT ![p] =
              IF session
              THEN [IdleProc EXCEPT !.op = op, !.pc = pc, !.groupId = groupId,
                                    !.name = name, !.input = input]
              ELSE [IdleProc EXCEPT !.op = op, !.pc = "done", !.status = 400]]

Answer(p, status, latest) ==
    kvp' = [kvp EXCEPT ![p].pc = "done", ![p].status = status, ![p].latest = latest]

\* Array.isArray(configs) ? configs[0] : undefined
Latest(configs) == IF Len(configs) > 0 THEN configs[1] ELSE NoItem

\* Mutant: the new configuration goes to the end of the list
AddConfigAtEnd(list, item) == Append(list, item)

\* addConfig / addGroup: JSON.stringify([item, ...list])
AddItem(list, item) == <<item>> \o list

\* POST /sticker-groups: const name = body?.name || 'Untitled'
StartAddGroup(p, session, name) ==
    /\ CanStart(p)
    /\ Started(p, "addGroup", session, "", IF Truthy(name) THEN name ELSE "Untitled",
               NoInput, "listGroups")
    /\ UNCHANGED <<kvGroups, kvConfigs, kvIssued, lastSaved>>

\* addGroup: const list = await this.listGroups(kv, userId); id, item
AddGroupList(p) ==
    /\ kvp[p].op = "addGroup" /\ kvp[p].pc = "listGroups"
    /\ kvp' = [kvp EXCEPT ![p].pc = "putGroups", ![p].list = kvGroups,
                          ![p].item = [id |-> Uuid(kvIssued + 1), name |-> kvp[p].name]]
    /\ kvIssued' = kvIssued + 1
    /\ UNCHANGED <<kvGroups, kvConfigs, lastSaved>>

\* addGroup: await kv.put(userGroupsKey, [item, ...list]); the route answers 201
AddGroupPut(p) ==
    /\ kvp[p].op = "addGroup" /\ kvp[p].pc = "putGroups"
    /\ kvGroups' = AddItem(kvp[p].list, kvp[p].item)
    /\ Answer(p, 201, NoItem)
    /\ UNCHANGED <<kvConfigs, kvIssued, lastSaved>>

\* POST /sticker-groups/:id
StartSave(p, session, groupId, name, input) ==
    /\ CanStart(p)
    /\ Started(p, "save", session, groupId, name, input, "findGroup")
    /\ UNCHANGED <<kvGroups, kvConfigs, kvIssued, lastSaved>>

\* if (input || imageUrls)
SavesConfig(input) == input.present \/ input.imageUrls

\* list.map(item => item.id === groupId ? {...item, name} : item)
Renamed(list, groupId, name) ==
    [i \in 1..Len(list) |->
        IF list[i].id = groupId THEN [list[i] EXCEPT !.name = name] ELSE list[i]]

\* updateGroupName up to its put, or getGroupById: the read of the group list
SaveFind(p) ==
    /\ kvp[p].op = "save" /\ kvp[p].pc = "findGroup"
    /\ IF ~GroupFound(kvGroups, kvp[p].groupId)
       THEN Answer(p, 404, NoItem)
       ELSE IF Truthy(kvp[p].name)
       THEN kvp' = [kvp EXCEPT ![p].pc = "rename",
                               ![p].list = Renamed(kvGroups, kvp[p].groupId, kvp[p].name)]
       ELSE kvp' = [kvp EXCEPT ![p].pc = IF SavesConfig(kvp[p].input) THEN "listConfigs"
                                         ELSE "getGroup"]
    /\ UNCHANGED <<kvGroups, kvConfigs, kvIssued, lastSaved>>

\* updateGroupName: await kv.put(userGroupsKey, JSON.stringify(next))
SaveRename(p) ==
    /\ kvp[p].op = "save" /\ kvp[p].pc = "rename"
    /\ kvGroups' = kvp[p].list
    /\ kvp' = [kvp EXCEPT ![p].pc = IF SavesConfig(kvp[p].input) THEN "listConfigs"
                                    ELSE "getGroup",
                          ![p].list = <<>>]
    /\ UNCHANGED <<kvConfigs, kvIssued, lastSaved>>

\* addConfig: const list = await this.listConfigs(kv, userId, groupId); id, item
SaveListConfigs(p) ==
    /\ kvp[p].op = "save" /\ kvp[p].pc = "listConfigs"
    /\ kvp' = [kvp EXCEPT ![p].pc = "putConfigs", ![p].list = kvConfigs[kvp[p].groupId],
                          ![p].item = SavedConfig(Uuid(kvIssued + 1), kvp[p].input.stickers)]
    /\ kvIssued' = kvIssued + 1
    /\ UNCHANGED <<kvGroups, kvConfigs, lastSaved>>

\* addConfig: await kv.put(groupConfigsKey, [item, ...list])
SavePutConfigs(p) ==
    /\ kvp[p].op = "save" /\ kvp[p].pc = "putConfigs"
    /\ kvConfigs' = [kvConfigs EXCEPT ![kvp[p].groupId] = AddItem(kvp[p].list, kvp[p].item)]
    /\ lastSaved' = [lastSaved EXCEPT ![kvp[p].groupId] = kvp[p].item]
    /\ kvp' = [kvp EXCEPT ![p].pc = "getGroup", ![p].list = <<>>]
    /\ UNCHANGED <<kvGroups, kvIssued>>

\* GET /sticker-groups/:id and GET /chat/stickers/:groupId
StartGet(p, session, route, groupId) ==
    /\ CanStart(p)
    /\ Started(p, route, session, groupId, Null, NoInput, "getGroup")
    /\ UNCHANGED <<kvGroups, kvConfigs, kvIssued, lastSaved>>

\* getGroupWithConfigs: const group = await this.getGroupById(...)
GetGroup(p) ==
    /\ kvp[p].op \in {"save", "get", "stickers"} /\ kvp[p].pc = "getGroup"
    /\ kvp' = [kvp EXCEPT ![p].pc = "getConfigs",
                          ![p].found = GroupFound(kvGroups, kvp[p].groupId)]
    /\ UNCHANGED <<kvGroups, kvConfigs, kvIssued, lastSaved>>

\* getGroupWithConfigs: const configs = await this.listConfigs(...), and the
\* answer of the route; group!.id of POST throws when the group is gone
GetConfigs(p) ==
    /\ kvp[p].op \in {"save", "get", "stickers"} /\ kvp[p].pc = "getConfigs"
    /\ LET configs == kvConfigs[kvp[p].groupId]
       IN  IF ~kvp[p].found
           THEN Answer(p, IF kvp[p].op = "save" THEN 500 ELSE 404, NoItem)
           ELSE IF kvp[p].op = "stickers" /\ Len(configs) = 0
           THEN Answer(p, 404, NoItem)
           ELSE Answer(p, 200, Latest(configs))
    /\ UNCHANGED <<kvGroups, kvConfigs, kvIssued, lastSaved>>

\* DELETE /sticker-groups/:id
StartDelete(p, session, groupId) ==
    /\ CanStart(p)
    /\ Started(p, "delete", session, groupId, Null, NoInput, "listGroups")
    /\ UNCHANGED <<kvGroups, kvConfigs, kvIssued, lastSaved>>

\* list.filter(c => c.id !== groupId)
Without(list, groupId) == SelectSeq(list, LAMBDA c : c.id # groupId)

\* deleteGroup: const list = await this.listGroups(kv, userId); next; changed
DeleteList(p) ==
    /\ kvp[p].op = "delete" /\ kvp[p].pc = "listGroups"
    /\ LET next == Without(kvGroups, kvp[p].groupId)
           changed == Len(next) # Len(kvGroups)
       IN  kvp' = [kvp EXCEPT ![p].pc = IF changed THEN "putGroups" ELSE "deleteConfigs",
                              ![p].list = next, ![p].found = changed]
    /\ UNCHANGED <<kvGroups, kvConfigs, kvIssued, lastSaved>>

\* deleteGroup: await kv.put(userGroupsKey, JSON.stringify(next))
DeletePut(p) ==
    /\ kvp[p].op = "delete" /\ kvp[p].pc = "putGroups"
    /\ kvGroups' = kvp[p].list
    /\ kvp' = [kvp EXCEPT ![p].pc = "deleteConfigs", ![p].list = <<>>]
    /\ UNCHANGED <<kvConfigs, kvIssued, lastSaved>>

\* deleteGroup: await kv.delete(groupConfigsKey); the route answers
DeleteConfigs(p) ==
    /\ kvp[p].op = "delete" /\ kvp[p].pc = "deleteConfigs"
    /\ kvConfigs' = [kvConfigs EXCEPT ![kvp[p].groupId] = <<>>]
    /\ Answer(p, IF kvp[p].found THEN 200 ELSE 404, NoItem)
    /\ UNCHANGED <<kvGroups, kvIssued, lastSaved>>

KvTargets == {"g4", "gX"}
KvNames == {Null, "Renamed"}
KvInputs ==
    { NoInput, Input(FALSE, <<>>, TRUE),
      Input(TRUE, <<Sticker("a1", "Alpha")>>, FALSE),
      Input(TRUE, <<Sticker("b1", "Beta"), Sticker("b2", "Gamma")>>, TRUE) }

KvStep(p) ==
    \/ AddGroupList(p) \/ AddGroupPut(p)
    \/ SaveFind(p) \/ SaveRename(p) \/ SaveListConfigs(p) \/ SavePutConfigs(p)
    \/ GetGroup(p) \/ GetConfigs(p)
    \/ DeleteList(p) \/ DeletePut(p) \/ DeleteConfigs(p)

KvStart(p) ==
    \/ \E session \in BOOLEAN, name \in {Null, "Cats"} : StartAddGroup(p, session, name)
    \/ \E session \in BOOLEAN, g \in KvTargets, name \in KvNames, input \in KvInputs :
          StartSave(p, session, g, name, input)
    \/ \E session \in BOOLEAN, route \in {"get", "stickers"}, g \in KvTargets :
          StartGet(p, session, route, g)
    \/ \E session \in BOOLEAN, g \in KvTargets : StartDelete(p, session, g)

-----------------------------------------------------------------------------
(* /reference-images: upload and delete. A string with slashes is the sequence
   of its segments: "ref-images/a/b/7.png" is <<"ref-images", "a", "b", "7.png">> *)

\* The value of the stickit-user cookie after decodeURIComponent; the server
\* takes whatever the cookie holds, "a/b" included
UserIds == { <<"a">>, <<"b">>, <<"a", "b">> }
NoUser == <<>>

\* `${timestamp}-${Math.random().toString(36).substring(2)}.${fileExtension}`
RefFile(timestamp, random, extension) ==
    [time |-> timestamp, rnd |-> random, ext |-> extension]

\* `ref-images/${userId}/${timestamp}-${random}.${fileExtension}`
RefFilename(userId, timestamp, random, extension) ==
    <<"ref-images">> \o userId \o <<RefFile(timestamp, random, extension)>>

\* filePath.startsWith(`ref-images/${userId}/`)
StartsWithUserPrefix(filePath, userId) ==
    LET prefix == <<"ref-images">> \o userId
    IN  /\ Len(filePath) > Len(prefix)
        /\ SubSeq(filePath, 1, Len(prefix)) = prefix

RefResponse(route, userId, status, filePath) ==
    [route |-> route, userId |-> userId, status |-> status, filePath |-> filePath]
NoRefResponse == RefResponse("none", NoUser, 0, <<>>)

\* formData.get('image'): absent, or a File with a type and a size
Files ==
    { [given |-> FALSE, type |-> "", big |-> FALSE, ext |-> "jpg"],
      [given |-> TRUE, type |-> "image/png", big |-> FALSE, ext |-> "png"],
      [given |-> TRUE, type |-> "image/gif", big |-> FALSE, ext |-> "gif"],
      [given |-> TRUE, type |-> "image/png", big |-> TRUE, ext |-> "png"] }

AllowedTypes == {"image/jpeg", "image/jpg", "image/png", "image/svg+xml"}

\* POST /reference-images
UploadReferenceImage(userId, file, timestamp, random, putThrows) ==
    LET filename == RefFilename(userId, timestamp, random, file.ext)
    IN  IF userId = NoUser \/ ~file.given \/ file.type \notin AllowedTypes \/ file.big
        THEN /\ refResp' = RefResponse("upload", userId, 400, <<>>)
             /\ UNCHANGED refStore
        ELSE IF putThrows
        THEN /\ refResp' = RefResponse("upload", userId, 500, <<>>)
             /\ UNCHANGED refStore
        ELSE /\ refStore' = (filename :> [uploadedBy |-> userId, contentType |-> file.type])
                               @@ refStore
             /\ refResp' = RefResponse("upload", userId, 200, filename)

\* bucket.delete(filePath): no object under the key, nothing happens
DeleteKey(st, filePath) == [k \in DOMAIN st \ {filePath} |-> st[k]]

\* DELETE /reference-images?filePath=...; <<>> is the parameter left out
DeleteReferenceImage(userId, filePath, deleteThrows) ==
    IF userId = NoUser \/ filePath = <<>>
    THEN /\ refResp' = RefResponse("delete", userId, 400, filePath)
         /\ UNCHANGED refStore
    ELSE IF ~StartsWithUserPrefix(filePath, userId)
    THEN /\ refResp' = RefResponse("delete", userId, 403, filePath)
         /\ UNCHANGED refStore
    ELSE IF deleteThrows
    THEN /\ refResp' = RefResponse("delete", userId, 500, filePath)
         /\ UNCHANGED refStore
    ELSE /\ refStore' = DeleteKey(refStore, filePath)
         /\ refResp' = RefResponse("delete", userId, 200, filePath)

\* The paths a DELETE request names: those of the stored objects, one with
\* nothing behind it, one outside ref-images/, and none
FilePaths ==
    DOMAIN refStore
    \cup { RefFilename(<<"a">>, 0, "zz", "png"), <<"avatar-g1-0.png">>, <<>> }

-----------------------------------------------------------------------------
(* ChatInterface.tsx: the chat UI. A text is the sequence of its characters *)

Space == " "

RECURSIVE TrimStart(_)
TrimStart(text) ==
    IF Len(text) > 0 /\ Head(text) = Space THEN TrimStart(Tail(text)) ELSE text

RECURSIVE TrimEnd(_)
TrimEnd(text) ==
    IF Len(text) > 0 /\ text[Len(text)] = Space
    THEN TrimEnd(SubSeq(text, 1, Len(text) - 1)) ELSE text

\* String.prototype.trim
Trim(text) == TrimEnd(TrimStart(text))

UiSticker(id) == [id |-> id]

\* ChatMessage: {id, text, isUser, timestamp, stickers}
UiMessage(text, isUser, stickers) == [text |-> text, isUser |-> isUser, stickers |-> stickers]

\* addMessage: if (!text.trim() && !stickers?.length) return; else one more message
AddMessage(list, text, isUser, stickers) ==
    IF Trim(text) = <<>> /\ Len(stickers) = 0 THEN list
    ELSE Append(list, UiMessage(Trim(text), isUser, stickers))

ErrorText == <<"S", "o", "r", "r", "y">>
NoStickerText == <<"I", "'", "d">>

\* What the handlers of the committed render see of the state
Shown(input, loading) == [inputMessage |-> input, isLoading |-> loading]

\* Mutant: the empty input is not looked at
CanSendAnything(input, loading) == ~loading

\* if (!inputMessage.trim() || isLoading) return
CanSend(input, loading) == Trim(input) # <<>> /\ ~loading

\* loadAvailableStickers: the answer of GET /chat/stickers/:groupId has arrived
LoadAvailableStickers ==
    /\ availableStickers = <<>>
    /\ availableStickers' = <<UiSticker("s1")>>
    /\ UNCHANGED <<inputMessage, isLoading, messages, shown, inFlight, sends>>

\* onChange of the input, which is disabled while the render shows isLoading
TypeInput(text) ==
    /\ ~shown.isLoading
    /\ sends < MaxSends
    /\ inputMessage' = text
    /\ shown' = Shown(text, isLoading)
    /\ UNCHANGED <<isLoading, messages, availableStickers, inFlight, sends>>

\* sendMessage up to its await of fetch, called by Enter in the input or by a
\* click on the button; the updates are committed before the next event
SendMessage ==
    /\ ~shown.isLoading
    /\ IF ~CanSend(shown.inputMessage, shown.isLoading)
       THEN UNCHANGED <<inputMessage, isLoading, messages, shown, inFlight, sends>>
       ELSE /\ inputMessage' = <<>>
            /\ messages' = AddMessage(messages, Trim(shown.inputMessage), TRUE, <<>>)
            /\ isLoading' = TRUE
            /\ shown' = Shown(<<>>, TRUE)
            /\ inFlight' = inFlight + 1
            /\ sends' = sends + 1
    /\ UNCHANGED availableStickers

\* data of an OK answer: message, and stickerIds (none, an array, or a string)
ChatData(message, idsKind, stickerIds) ==
    [message |-> message, idsKind |-> idsKind, stickerIds |-> stickerIds]

ChatDatas ==
    { ChatData(m, k, ids) : m \in {<<>>, <<"h", "i">>}, k \in {"array"},
                            ids \in {<<>>, <<"s1">>, <<"zz">>} }
    \cup { ChatData(<<"h", "i">>, "none", <<>>), ChatData(<<"h", "i">>, "string", <<"s1">>) }

\* body.stickerIds.map(id => stickers.find(s => s.id === id)).filter(Boolean)
SelectedStickers(stickerIds, stickers) ==
    LET found == SelectSeq(stickerIds, LAMBDA id : \E i \in 1..Len(stickers) : stickers[i].id = id)
    IN  [i \in 1..Len(found) |-> UiSticker(found[i])]

\* The messages after an OK answer with `data` = body
AfterData(list, body, stickers) ==
    LET withText == IF Len(body.message) > 0
                    THEN AddMessage(list, body.message, FALSE, <<>>) ELSE list
    IN  IF body.idsKind = "none" \/ Len(body.stickerIds) = 0 THEN withText
        ELSE IF body.idsKind = "string"
        THEN AddMessage(withText, ErrorText, FALSE, <<>>)
        ELSE IF Len(SelectedStickers(body.stickerIds, stickers)) > 0
        THEN AddMessage(withText, <<>>, FALSE, SelectedStickers(body.stickerIds, stickers))
        ELSE AddMessage(withText, NoStickerText, FALSE, <<>>)

\* The await of fetch ends: an OK answer with its body, an OK answer whose body
\* is no JSON, a non-OK answer, or a rejection; then the finally block
FetchSettles(kind, body) ==
    /\ inFlight > 0
    /\ messages' = IF kind = "ok" THEN AfterData(messages, body, availableStickers)
                   ELSE AddMessage(messages, ErrorText, FALSE, <<>>)
    /\ isLoading' = FALSE
    /\ inFlight' = inFlight - 1
    /\ UNCHANGED <<inputMessage, shown, availableStickers, sends>>

\* React renders the component again with the current state
Render ==
    /\ shown # Shown(inputMessage, isLoading)
    /\ shown' = Shown(inputMessage, isLoading)
    /\ UNCHANGED <<inputMessage, isLoading, messages, availableStickers, inFlight, sends>>

InputTexts == { <<>>, <<Space>>, <<"h", "i">>, <<Space, "y", "o", Space>> }

-----------------------------------------------------------------------------
(* Initial state and specifications *)

Init ==
    /\ store = InitStore
    /\ clock = 0
    /\ gpc = "idle"
    /\ greq = NoRequest
    /\ contents = <<>>
    /\ prompt = <<>>
    /\ modelResp = NoResponse
    /\ httpResp = NoHttpResponse
    /\ putCount = 0
    /\ modelCalls = 0
    /\ calls = 1
    /\ written = <<>>
    /\ built = <<>>
    /\ kvGroups = InitGroups
    /\ kvConfigs = InitConfigs
    /\ cpc = "idle"
    /\ creq = NoChatRequest
    /\ catalog = <<>>
    /\ chatCalls = 0
    /\ modelText = NoChatOutput
    /\ parsedResponse = NoParsedResponse
    /\ chatResp = NoChatResponse
    /\ ipc = "idle"
    /\ image = <<>>
    /\ data = <<>>
    /\ threshold = 240
    /\ passes = 0
    /\ firstPass = <<>>
    /\ kvp = [p \in Procs |-> IdleProc]
    /\ kvIssued = 0
    /\ lastSaved = [g \in ChatGroupIds |-> Latest(InitConfigs[g])]
    /\ refStore = <<>>
    /\ refResp = NoRefResponse
    /\ inputMessage = <<>>
    /\ isLoading = FALSE
    /\ messages = <<>>
    /\ availableStickers = <<>>
    /\ shown = Shown(<<>>, FALSE)
    /\ inFlight = 0
    /\ sends = 0

\* The suffixes of the stickers written so far
UsedSuffixes == { written[i].key.rnd : i \in 1..Len(written) }

\* Math.random() matters to the sticker filename only; it does not give the
\* same value twice
Randoms == IF greq.route = "sticker" THEN RandomSuffixes \ UsedSuffixes ELSE {""}
\* the later Date.now() of the sticker id
IdTimes == IF greq.route = "sticker" THEN clock..MaxClock ELSE {clock}

\* Every request shape against a few model answers
BuildNext ==
    \/ \E r \in GenRequests : Receive(r)
    \/ \E resp \in CoreResponses, random \in Randoms, putThrows \in BOOLEAN,
          idTime \in IdTimes : Respond(resp, random, putThrows, idTime)
    \/ Tick

SpecBuild == Init /\ [][BuildNext]_vars

\* A few request shapes against every model answer
GenNext ==
    \/ \E r \in CoreRequests : Receive(r)
    \/ \E resp \in ModelResponses, random \in Randoms, putThrows \in BOOLEAN,
          idTime \in IdTimes : Respond(resp, random, putThrows, idTime)
    \/ Tick

SpecGen == Init /\ [][GenNext]_vars

\* Generation requests one after the other, also within one clock value: the
\* handlers read Date.now() and issue their put with no await between, so two
\* requests in flight together leave the bucket as their Respond steps do in
\* one of the two orders
PairRequests ==
    { GenRequest("sticker", TRUE, BareSticker, BareBrand, SomeAvatarCreation, g) :
        g \in GroupIds }
    \cup { GenRequest("avatar", TRUE, Absent, BareBrand, SomeAvatarCreation, g) :
        g \in GroupIds }
    \cup { GenRequest("avatar", TRUE, Absent, Absent, SomeAvatarCreation, "g1") }

PairResponses ==
    { ModelResponse("throws", <<>>) }
    \cup { ModelResponse("parts", <<[inlineData |-> [mimeType |-> "image/png", data |-> d]]>>) :
             d \in {Btoa(ImgA), Btoa(ImgB)} }

PairNext ==
    \/ \E r \in PairRequests : Receive(r)
    \/ \E resp \in PairResponses, random \in Randoms, putThrows \in BOOLEAN,
          idTime \in IdTimes : Respond(resp, random, putThrows, idTime)
    \/ NextCall
    \/ Tick

SpecPair == Init /\ [][PairNext]_vars

\* Two generation requests one after the other, each logged with the bucket
\* and the clock it met
TwiceRequests ==
    { GenRequest("sticker", TRUE, RichSticker, RichBrand,
                 AvatarCreation("a small fox", "cheerful", RichPalette,
                                [url |-> AvatarUrl(OldAvatarKey)],
                                <<[url |-> RefUrl(Ref1Key)]>>), "g1"),
      GenRequest("avatar", TRUE, Absent, RichBrand,
                 AvatarCreation("a small fox", "cheerful", RichPalette, Absent,
                                <<[url |-> RefUrl(Ref1Key)]>>), "g1"),
      GenRequest("avatar", TRUE, Absent, BareBrand, SomeAvatarCreation, Null),
      GenRequest("avatar", TRUE, Absent, Absent, SomeAvatarCreation, "g1") }

TwiceNext ==
    \/ \E r \in TwiceRequests : ReceiveLogged(r)
    \/ \E resp \in PairResponses, random \in Randoms, putThrows \in BOOLEAN,
          idTime \in IdTimes : Respond(resp, random, putThrows, idTime)
    \/ NextCall
    \/ Tick

SpecTwice == Init /\ [][TwiceNext]_vars

-----------------------------------------------------------------------------
(* ImageProcessor.removeWhiteBackground *)

\* data[n] ?? 0, n counted from 1
ByteAt(d, n) == IF n <= Len(d) THEN d[n] ELSE 0

\* data[n] = v on a typed array: a write past the end is dropped
SetByte(d, n, v) == IF n <= Len(d) THEN [d EXCEPT ![n] = v] ELSE d

IsWhite(d, i, t) == ByteAt(d, i) > t /\ ByteAt(d, i + 1) > t /\ ByteAt(d, i + 2) > t

\* Mutant: a white pixel loses half of its alpha in each call
RECURSIVE RemoveWhiteFading(_, _, _)
RemoveWhiteFading(d, t, i) ==
    IF i > Len(d) THEN d
    ELSE RemoveWhiteFading(IF IsWhite(d, i, t)
                           THEN SetByte(d, i + 3, ByteAt(d, i + 3) \div 2) ELSE d,
                           t, i + 4)

\* for (let i = 0; i < data.length; i += 4) { ... data[i + 3] = 0 }
RECURSIVE RemoveWhiteFrom(_, _, _)
RemoveWhiteFrom(d, t, i) ==
    IF i > Len(d) THEN d
    ELSE RemoveWhiteFrom(IF IsWhite(d, i, t) THEN SetByte(d, i + 3, 0) ELSE d, t, i + 4)

RemoveWhiteBackgroundFading(d, t) == RemoveWhiteFading(d, t, 1)

RemoveWhiteBackground(d, t) == RemoveWhiteFrom(d, t, 1)

ByteValues == {0, 241, 255}
Thresholds == {240, 250}
CanvasData == SeqsUpTo(ByteValues, MaxData)

\* ctx.getImageData(...).data, and the threshold of the options
GetImageData(d, t) ==
    /\ ipc = "idle"
    /\ ipc' = "drawn"
    /\ image' = d /\ data' = d /\ threshold' = t
    /\ passes' = 0 /\ firstPass' = <<>>
    /\ UNCHANGED <<genVars, chatVars, kvpVars, refVars, uiVars>>

\* this.removeWhiteBackground(data, opts.whiteThreshold), on the same array
ProcessData ==
    /\ ipc = "drawn"
    /\ passes < MaxPasses
    /\ data' = RemoveWhiteBackground(data, threshold)
    /\ passes' = passes + 1
    /\ firstPass' = IF passes = 0 THEN data' ELSE firstPass
    /\ UNCHANGED <<ipc, image, threshold, genVars, chatVars, kvpVars, refVars, uiVars>>

ImageNext ==
    \/ ipc = "idle" /\ \E d \in CanvasData, t \in Thresholds : GetImageData(d, t)
    \/ ProcessData

SpecImage == Init /\ [][ImageNext]_vars

\* Two /sticker-groups requests of one user, in any interleaving
KvOther == <<store, clock, gpc, greq, contents, prompt, modelResp, httpResp, calls,
             written, built, putCount, modelCalls, cpc, creq, catalog, chatCalls,
             modelText, parsedResponse, chatResp, imgVars, refVars, uiVars>>

\* One chat request of the same user, at any moment
KvChatRequests == { ChatRequest(TRUE, TRUE, "hello", g, <<>>) : g \in KvTargets }
KvChatOutput == ChatOutput(FALSE, <<ObjSeg("hi", "array", <<"a1">>)>>)

KvNext ==
    \/ \E p \in Procs : (KvStart(p) \/ KvStep(p)) /\ UNCHANGED KvOther
    \/ cpc = "idle" /\ \E r \in KvChatRequests : Chat(r, KvChatOutput)

SpecKV == Init /\ [][KvNext]_vars

\* Uploads and deletions of reference images by several users
RefOther == <<genVars, chatVars, imgVars, kvpVars, uiVars>>

RefNext ==
    \/ \E userId \in UserIds \cup {NoUser}, file \in Files, timestamp \in 0..MaxClock,
          putThrows \in BOOLEAN :
          /\ UploadReferenceImage(userId, file, timestamp, "r7", putThrows)
          /\ UNCHANGED RefOther
    \/ \E userId \in UserIds \cup {NoUser}, filePath \in FilePaths, deleteThrows \in BOOLEAN :
          /\ DeleteReferenceImage(userId, filePath, deleteThrows)
          /\ UNCHANGED RefOther

SpecRef == Init /\ [][RefNext]_vars

\* The chat UI: typing, sending, the answers of /chat
UiOther == <<genVars, chatVars, imgVars, kvpVars, refVars>>

FetchEnds ==
    \/ \E body \in ChatDatas : FetchSettles("ok", body)
    \/ \E kind \in {"not json", "not ok", "rejected"} : FetchSettles(kind, ChatData(<<>>, "none", <<>>))

UiNext ==
    \/ LoadAvailableStickers /\ UNCHANGED UiOther
    \/ (\E text \in InputTexts : TypeInput(text)) /\ UNCHANGED UiOther
    \/ SendMessage /\ UNCHANGED UiOther
    \/ FetchEnds /\ UNCHANGED UiOther
    \/ Render /\ UNCHANGED UiOther

\* A fetch that was started settles: the browser answers or gives up
SpecUI == Init /\ [][UiNext]_vars /\ WF_vars(FetchEnds /\ UNCHANGED UiOther)

\* A few model texts of each shape, for the runs over all three handlers
CoreChatOutputs ==
    { ChatOutput(TRUE, <<>>), ChatOutput(FALSE, <<>>), ChatOutput(FALSE, <<Seg("text")>>),
      ChatOutput(FALSE, <<ObjSeg("hi", "array", <<"s1">>)>>),
      ChatOutput(FALSE, <<ObjSeg("hi", "string", <<"s1">>)>>),
      ChatOutput(FALSE, <<ObjSeg("hi", "array", <<"zz">>), Seg("close")>>) }

\* Sticker requests whose stickerData has no name, or an empty scenario
NamelessRequests ==
    { GenRequest("sticker", TRUE, sd, BareBrand, SomeAvatarCreation, "g1") :
        sd \in { StickerData(Null, "waving hello", Null, Null),
                 StickerData("Hello", "", Null, Null) } }

\* Requests during which `new URL` or bucket.get throws
ThrowingRequests ==
    { GenRequest("avatar", TRUE, Absent, BareBrand,
                 AvatarCreation("a small fox", Null, <<>>, Absent, refs), "g1") :
        refs \in { <<[url |-> BadUrl]>>, <<[url |-> RefUrl(FailKey)], [url |-> RefUrl(Ref1Key)]>> } }
    \cup
    { GenRequest("sticker", TRUE, BareSticker, BareBrand,
                 AvatarCreation("a small fox", Null, <<>>, [url |-> u], <<>>), "g1") :
        u \in { BadUrl, AvatarUrl(FailKey) } }

AllRequests == CoreRequests \cup NamelessRequests \cup ThrowingRequests

\* One more answer: an image payload that atob rejects
AllResponses ==
    CoreResponses
    \cup { ModelResponse("parts", <<[inlineData |-> [mimeType |-> "image/png",
                                                     data |-> <<19, BadChar, 4, 7>>]]>>) }

\* A generation request and a chat request, each against a few model answers
AllNext ==
    \/ \E r \in AllRequests : Receive(r)
    \/ \E resp \in AllResponses, random \in Randoms, putThrows \in BOOLEAN,
          idTime \in IdTimes : Respond(resp, random, putThrows, idTime)
    \/ Tick
    \/ cpc = "idle" /\ \E r \in ChatRequests, out \in CoreChatOutputs : Chat(r, out)

SpecAll == Init /\ [][AllNext]_vars

\* One chat request against every model text
ChatNext == cpc = "idle" /\ \E r \in ChatRequests, out \in ChatOutputs : Chat(r, out)

SpecChat == Init /\ [][ChatNext]_vars

-----------------------------------------------------------------------------
(* Claims about the generation routes *)

\* The request's generated avatar resolves to a stored object
AvatarResolves(st, ac) ==
    /\ ac.generatedAvatar # Absent
    /\ ac.generatedAvatar.url.form = "ok"
    /\ \/ ac.generatedAvatar.url.filename \in DOMAIN st
       \/ /\ ac.generatedAvatar.url.filename = NoKey
          /\ ac.generatedAvatar.url.last \in DOMAIN st

AvatarKeyOf(ac) ==
    IF ac.generatedAvatar.url.filename # NoKey THEN ac.generatedAvatar.url.filename
    ELSE ac.generatedAvatar.url.last

\* The listed reference images that resolve, in the order of the request
ResolvableRefs(st, refs) ==
    SelectSeq(refs, LAMBDA x : x.url.form = "ok" /\ x.url.filePath \in DOMAIN st)

ScenarioVerbatim(text, scenario) ==
    \E j \in 1..(Len(text) - 1) : text[j] = "Usage Scenario: " /\ text[j + 1] = scenario

\* C1: whenever /generate-sticker attaches the generated avatar, the parts
\* handed to the model are [text, avatar, ref_1, ..., ref_k]: the avatar is
\* part 2 and the resolvable reference images follow in request order; with no
\* reference images the parts are [promptText, avatar] and promptText holds
\* the scenario verbatim.
C1_AvatarFirst ==
    (gpc = "calling" /\ greq.route = "sticker"
       /\ AvatarResolves(store, greq.avatarCreation))
    => LET ac   == greq.avatarCreation
           refs == ResolvableRefs(store, ac.referenceImages)
       IN  /\ Len(contents) = 2 + Len(refs)
           /\ ~IsImagePart(contents[1])
           /\ ScenarioVerbatim(contents[1].text, greq.stickerData.scenario)
           /\ IsImagePart(contents[2])
           /\ contents[2].inlineData.data = Btoa(store[AvatarKeyOf(ac)].bytes)
           /\ \A i \in 1..Len(refs) :
                /\ IsImagePart(contents[2 + i])
                /\ contents[2 + i].inlineData.data = Btoa(store[refs[i].url.filePath].bytes)
           /\ (Len(ac.referenceImages) = 0 => Len(contents) = 2)

\* avatar + two different resolvable reference images: four parts
C1_Witness ==
    /\ gpc = "calling" /\ greq.route = "sticker"
    /\ AvatarResolves(store, greq.avatarCreation)
    /\ greq.avatarCreation.referenceImages = <<[url |-> RefUrl(Ref2Key)], [url |-> RefUrl(Ref1Key)]>>
    /\ Len(contents) = 4
    /\ contents[3].inlineData.data = Btoa(RefBytes2)

ImageIndexes(resp) ==
    IF resp.kind # "parts" THEN {}
    ELSE { i \in 1..Len(resp.parts) :
             /\ "inlineData" \in DOMAIN resp.parts[i]
             /\ resp.parts[i].inlineData.data # <<>> }

FirstImageIndex(resp) ==
    CHOOSE i \in ImageIndexes(resp) : \A j \in ImageIndexes(resp) : i <= j

\* C3: the bytes stored and reported by a successful generation are the
\* decoded payload of the first part of the model response that carries
\* inline image data, however many image parts follow it and whatever
\* non-image parts precede it.
C3_FirstImagePersisted ==
    (gpc = "done" /\ httpResp.status = 200)
    => /\ ImageIndexes(modelResp) # {}
       /\ store[httpResp.filename].bytes
            = Atob(modelResp.parts[FirstImageIndex(modelResp)].inlineData.data)
       /\ httpResp.size = Len(store[httpResp.filename].bytes)

\* text, then two different images: the first image is the one stored
C3_Witness ==
    /\ gpc = "done" /\ httpResp.status = 200
    /\ Len(modelResp.parts) = 3
    /\ ImageIndexes(modelResp) = {2, 3}
    /\ store[httpResp.filename].bytes = ImgA
    /\ Atob(modelResp.parts[3].inlineData.data) = ImgB

\* C4: when the model response has no candidates, no parts or no part with
\* inline image data, the request ends with HTTP 500 and stores nothing.
C4_NoImageFails ==
    (gpc = "done" /\ modelResp.kind \in {"no candidates", "no parts", "parts"}
       /\ ImageIndexes(modelResp) = {})
    => httpResp.status = 500 /\ putCount = 0

\* only a text part and an inline part with an empty payload came back
C4_Witness ==
    /\ gpc = "done" /\ modelResp.kind = "parts"
    /\ Len(modelResp.parts) = 2
    /\ \E i \in 1..2 : "inlineData" \in DOMAIN modelResp.parts[i]
    /\ ImageIndexes(modelResp) = {}
    /\ httpResp.status = 500
    /\ httpResp.error = "Failed to generate from Gemini"

\* README, "Users can upload up to 3 reference images"
RefCap == 3

Min(a, b) == IF a < b THEN a ELSE b

\* The image parts of `contents`
ImageParts(cs) == SelectSeq(cs, IsImagePart)

\* Every locator of the request resolves to a stored object
AllResolve(st, r) ==
    /\ r.avatarCreation.generatedAvatar # Absent => AvatarResolves(st, r.avatarCreation)
    /\ ResolvableRefs(st, r.avatarCreation.referenceImages) = r.avatarCreation.referenceImages

\* C11: when every locator resolves, the number of image parts handed to the
\* model is 1 (if a primary avatar is present) + min(len(referenceImages), 3):
\* never more than three reference images, also when more are listed.
C11_AtMostThreeRefs ==
    (gpc = "calling" /\ AllResolve(store, greq))
    => Len(ImageParts(contents))
         = (IF greq.avatarCreation.generatedAvatar # Absent THEN 1 ELSE 0)
           + Min(Len(greq.avatarCreation.referenceImages), RefCap)

\* Four stored reference images are listed and all four are attached
C11_Witness ==
    /\ gpc = "calling" /\ greq.route = "avatar"
    /\ AllResolve(store, greq)
    /\ Len(greq.avatarCreation.referenceImages) = 4
    /\ Len(ImageParts(contents)) = 4

\* The request was well-formed and has been taken up by its handler
Accepted == gpc # "idle" /\ greq # NoRequest /\ greq.bodyOk /\ ~MissingRequiredData(greq)

\* C12: a reference image that cannot be resolved (no object under its key, no
\* filePath parameter, malformed URL) is skipped: the request still reaches
\* the model call without an error response, and the images attached after
\* the primary avatar are exactly the resolvable ones, in request order.
C12_UnresolvableSkipped ==
    Accepted =>
        LET ac   == greq.avatarCreation
            refs == ResolvableRefs(store, ac.referenceImages)
            imgs == ImageParts(contents)
            k    == IF greq.route = "sticker" /\ AvatarResolves(store, ac) THEN 1 ELSE 0
        IN  /\ gpc = "calling" /\ modelCalls = 1
            /\ httpResp = NoHttpResponse
            /\ Len(imgs) = k + Len(refs)
            /\ \A i \in 1..Len(refs) :
                 imgs[k + i].inlineData.data = Btoa(store[refs[i].url.filePath].bytes)

\* A missing object is listed before a stored one: only the stored one is sent
C12_Witness ==
    /\ Accepted /\ gpc = "calling"
    /\ greq.avatarCreation.referenceImages
         = <<[url |-> RefUrl(GoneKey)], [url |-> RefUrl(Ref1Key)]>>
    /\ greq.avatarCreation.generatedAvatar = Absent
    /\ Len(ImageParts(contents)) = 1
    /\ ImageParts(contents)[1].inlineData.data = Btoa(RefBytes1)

\* C13: the image-dependent phrasing of the sticker prompt tells what was
\* attached: the clause "The FIRST image provided is the generated avatar" is
\* there only when the primary avatar was resolved and is the first image
\* part, and no image clause is there when no image was attached.
C13_ClauseMatchesImages ==
    (gpc = "calling" /\ greq.route = "sticker") =>
        /\ Contains(prompt, StickerAvatarClause) =>
             /\ AvatarResolves(store, greq.avatarCreation)
             /\ Len(contents) >= 2 /\ IsImagePart(contents[2])
             /\ contents[2].inlineData.data
                  = Btoa(store[AvatarKeyOf(greq.avatarCreation)].bytes)
        /\ Len(ImageParts(contents)) = 0 =>
             /\ ~Contains(prompt, StickerAvatarClause)
             /\ ~Contains(prompt, StickerRefClause)

\* The avatar URL names a missing object, a reference image is stored: the
\* prompt calls the reference image the generated avatar
C13_Witness ==
    /\ gpc = "calling" /\ greq.route = "sticker"
    /\ greq.avatarCreation.generatedAvatar = [url |-> AvatarUrl(GoneKey)]
    /\ greq.avatarCreation.referenceImages = <<[url |-> RefUrl(Ref1Key)]>>
    /\ Contains(prompt, StickerAvatarClause)
    /\ Len(ImageParts(contents)) = 1
    /\ contents[2].inlineData.data = Btoa(RefBytes1)

\* The text holds one of the clauses appended for attached images
HasImageClause(text) ==
    \/ Contains(text, AvatarRefClause)
    \/ Contains(text, StickerAvatarClause)
    \/ Contains(text, StickerRefClause)

\* C14: the text part handed to the model (the first content part) is the
\* complete composed prompt: with at least one image attached it holds the
\* image clause, and for /generate-avatar it is the very string the response
\* returns as the prompt used.
C14_TextPartIsPrompt ==
    [][ /\ (gpc' = "calling" /\ Len(ImageParts(contents')) >= 1)
             => HasImageClause(contents'[1].text)
        /\ (gpc = "calling" /\ gpc' = "done" /\ httpResp'.status = 200
              /\ httpResp'.route = "avatar")
             => httpResp'.prompt = contents[1].text ]_vars

\* A reference image is attached; the clause is in `prompt` and not in the
\* text part of `contents`
C14_Witness ==
    /\ gpc = "calling" /\ greq.route = "avatar"
    /\ Len(ImageParts(contents)) = 1
    /\ Contains(prompt, AvatarRefClause)
    /\ ~HasImageClause(contents[1].text)
    /\ prompt = Append(contents[1].text, AvatarRefClause)

\* C15: a successful generation never overwrites an artifact: any two
\* successful generate-avatar or generate-sticker calls, also calls for the
\* same groupId that see the same clock value, write under different locators,
\* and the earlier artifact's bytes stay readable under its locator.
C15_NeverOverwrites ==
    /\ \A i, j \in 1..Len(written) : i < j => written[i].key # written[j].key
    /\ \A i \in 1..Len(written) :
         /\ written[i].key \in DOMAIN store
         /\ store[written[i].key].bytes = written[i].bytes

\* Two avatars for one group within one clock value: one key, the first
\* avatar's bytes are gone
C15_Witness ==
    /\ Len(written) = 2
    /\ written[1].key = written[2].key
    /\ written[1].key.kind = "avatar"
    /\ written[1].bytes = ImgA /\ written[2].bytes = ImgB
    /\ store[written[1].key].bytes = ImgB

-----------------------------------------------------------------------------
(* Claims about all three handlers *)

\* The chat request passed validation and its catalog was found
ChatLookedUp ==
    /\ cpc = "done"
    /\ creq.session /\ creq.bodyOk /\ Truthy(creq.message) /\ Truthy(creq.groupId)
    /\ GroupFound(kvGroups, creq.groupId)
    /\ Len(kvConfigs[creq.groupId]) > 0
    /\ Len(kvConfigs[creq.groupId][1].stickers) > 0

MissingField(r) ==
    \/ r.brandIdentity = Absent
    \/ r.avatarCreation = Absent
    \/ /\ r.route = "sticker"
       /\ \/ r.stickerData = Absent
          \/ ~Truthy(r.stickerData.name)
          \/ ~Truthy(r.stickerData.scenario)

\* C17: a request missing a required field (brandIdentity or avatarCreation
\* for generate-avatar; stickerData, its name or scenario, brandIdentity or
\* avatarCreation for generate-sticker; message or groupId for chat) is
\* answered with a client error before any model call and before the content
\* store is read or written.
C17_MissingFieldRejected ==
    /\ (gpc # "idle" /\ greq # NoRequest /\ greq.bodyOk /\ MissingField(greq)) =>
          /\ gpc = "done" /\ httpResp.status = 400
          /\ modelCalls = 0 /\ contents = <<>> /\ store = InitStore
    /\ (cpc = "done" /\ creq.session /\ creq.bodyOk
          /\ (~Truthy(creq.message) \/ ~Truthy(creq.groupId))) =>
          /\ chatResp.status = 400 /\ chatCalls = 0 /\ catalog = <<>>

\* A sticker request without a name is at the model call, "undefined" in its
\* prompt
C17_Witness ==
    /\ gpc = "calling" /\ greq.route = "sticker"
    /\ greq.stickerData # Absent /\ greq.stickerData.name = Null
    /\ modelCalls = 1
    /\ Contains(contents[1].text, "undefined")

-----------------------------------------------------------------------------
(* Claims about POST /chat *)

\* The handler found a non-empty catalog and the model call returned
ModelAnswered == cpc = "done" /\ Len(catalog) > 0 /\ chatCalls = 1 /\ ~modelText.threw

CatalogIds == {catalog[i].id : i \in 1..Len(catalog)}

\* The segment with the first '{' of the model text, 0 when the text has none
FirstBrace == FirstOpenFrom(modelText.text, 1)

\* The model text holds no {...} span: no '{', or no '}' at or after the first '{'
NoSpan == FirstBrace = 0 \/ LastCloseFrom(modelText.text, Len(modelText.text)) < FirstBrace

\* The handler took its fallback answer (no span, or the span did not parse)
FallbackTaken == parsedResponse.reasoning = FallbackReasoning

\* The parsed answer lists ids (or has no stickerIds) and names none of the catalog
NoneInCatalog ==
    /\ parsedResponse.reasoning = "model"
    /\ parsedResponse.stickerIds.type \in {"array", "undefined"}
    /\ \A i \in 1..Len(parsedResponse.stickerIds.items) :
          parsedResponse.stickerIds.items[i] \notin CatalogIds

\* Positions of the proposed ids that are ids of the catalog
ValidPositions ==
    {i \in 1..Len(parsedResponse.stickerIds.items) :
        parsedResponse.stickerIds.items[i] \in CatalogIds}

\* The assistant turn appended to the returned conversation history
AssistantTurn == Last(chatResp.conversationHistory)

\* C5: once the group and its catalog are found, POST /chat answers with HTTP
\* success whatever the model returned (empty text, no JSON, unparsable JSON,
\* stickerIds missing, not an array, or unknown): never an error.
C5_AlwaysSuccess == ModelAnswered => chatResp.status = 200

\* The model answered with an object whose stickerIds is a string
C5_Witness ==
    /\ ModelAnswered
    /\ parsedResponse.reasoning = "model"
    /\ parsedResponse.stickerIds.type = "string"
    /\ chatResp.status = 500

C7_AtMostOneCatalogId ==
    (cpc = "done" /\ chatResp.status = 200) =>
        /\ Len(chatResp.stickerIds) <= 1
        /\ \A i \in 1..Len(chatResp.stickerIds) : chatResp.stickerIds[i] \in CatalogIds
        /\ AssistantTurn.role = "assistant"
        /\ AssistantTurn.stickerIds = chatResp.stickerIds

\* The model proposed three ids, two of them in the catalog; one is returned
C7_Witness ==
    /\ cpc = "done" /\ chatResp.status = 200
    /\ Len(parsedResponse.stickerIds.items) = 3
    /\ Cardinality(ValidPositions) = 2
    /\ Len(chatResp.stickerIds) = 1
    /\ Len(chatResp.conversationHistory) = 4

\* C8: when the parsed answer proposes ids of which at least one is in the
\* catalog, the reply carries exactly the first proposed id that is in the
\* catalog, skipping earlier unknown ids; no random sticker is used.
C8_FirstValidId ==
    (ModelAnswered /\ parsedResponse.reasoning = "model"
        /\ parsedResponse.stickerIds.type = "array" /\ ValidPositions # {}) =>
        LET first == CHOOSE i \in ValidPositions : \A j \in ValidPositions : i <= j
        IN  /\ chatResp.status = 200
            /\ chatResp.stickerIds = <<parsedResponse.stickerIds.items[first]>>

\* The proposal starts with an unknown id; the second one is returned
C8_Witness ==
    /\ ModelAnswered
    /\ parsedResponse.reasoning = "model"
    /\ parsedResponse.stickerIds.items = <<"zz", "s2", "s1">>
    /\ chatResp.stickerIds = <<"s2">>

\* C9: for a collection whose catalog has zero stickers, POST /chat with a
\* non-empty message gives a successful reply with zero sticker ids, no error.
C9_EmptyCatalogSucceeds ==
    (/\ cpc = "done"
     /\ creq.session /\ creq.bodyOk /\ Truthy(creq.message) /\ Truthy(creq.groupId)
     /\ GroupFound(kvGroups, creq.groupId)
     /\ Len(kvConfigs[creq.groupId]) > 0
     /\ Len(kvConfigs[creq.groupId][1].stickers) = 0) =>
        chatResp.status = 200 /\ chatResp.stickerIds = <<>>

\* The chat on the group whose configuration lists no sticker is refused
C9_Witness ==
    /\ cpc = "done"
    /\ creq.groupId = "g3" /\ creq.message = "hello"
    /\ chatResp.status = 404
    /\ chatResp.error = "no stickers found in this group"
    /\ chatCalls = 0

\* C10: the object parsed is the first balanced {...} span of the model text:
\* when the first '{' of the text starts a valid JSON object, that object is
\* parsed and the fallback is not taken, whatever commentary, braces or second
\* object come before or after it.
C10_FirstObjectParsed ==
    (ModelAnswered /\ FirstBrace > 0 /\ modelText.text[FirstBrace].seg = "obj") =>
        /\ ~FallbackTaken
        /\ parsedResponse.stickerIds = modelText.text[FirstBrace].obj.stickerIds

\* A valid object followed by commentary with a '}' : the fallback is taken
C10_Witness ==
    /\ ModelAnswered
    /\ modelText.text = <<ObjSeg("hi", "array", <<"s1">>), Seg("text"), Seg("close")>>
    /\ FallbackTaken

\* The ids of the groups in the user's list
ListedGroupIds == { kvGroups[i].id : i \in 1..Len(kvGroups) }

\* C18: POST /chat for a group id that is not in the user's group list, or for
\* a listed group with no stored configuration, answers 404 not found and
\* makes no model call.
C18_LookupMiss404 ==
    (cpc = "done" /\ creq.session /\ creq.bodyOk
       /\ Truthy(creq.message) /\ Truthy(creq.groupId)) =>
        /\ creq.groupId \notin ListedGroupIds =>
             /\ chatResp.status = 404 /\ chatResp.error = "sticker group not found"
             /\ chatCalls = 0
        /\ (creq.groupId \in ListedGroupIds /\ kvConfigs[creq.groupId] = <<>>) =>
             /\ chatResp.status = 404 /\ chatResp.error = "no sticker configuration found"
             /\ chatCalls = 0

\* A chat on a group of somebody else, refused
C18_Witness ==
    /\ cpc = "done" /\ creq.groupId = "gX" /\ creq.message = "hello"
    /\ Len(creq.conversationHistory) = 2
    /\ chatResp.status = 404 /\ chatResp.error = "sticker group not found"
    /\ chatCalls = 0

\* C19: on every successful chat turn the returned history is the request's
\* conversationHistory followed by exactly two new turns: the user turn with
\* the incoming message, then the assistant turn with the reply text and the
\* sticker ids of the top-level response; earlier turns are kept in order.
C19_HistoryAppended ==
    (cpc = "done" /\ chatResp.status = 200) =>
        LET h == chatResp.conversationHistory
            n == Len(creq.conversationHistory)
        IN  /\ Len(h) = n + 2
            /\ SubSeq(h, 1, n) = creq.conversationHistory
            /\ h[n + 1].role = "user"
            /\ h[n + 1].content.defined
            /\ Len(h[n + 1].content.text) = 1
            /\ h[n + 1].content.text[1].seg = creq.message
            /\ h[n + 2].role = "assistant"
            /\ h[n + 2].content = chatResp.message
            /\ h[n + 2].stickerIds = chatResp.stickerIds

\* Two earlier turns, then the user's "hello" and the reply with its sticker
C19_Witness ==
    /\ cpc = "done" /\ chatResp.status = 200
    /\ Len(creq.conversationHistory) = 2
    /\ Len(chatResp.conversationHistory) = 4
    /\ chatResp.conversationHistory[2].stickerIds = <<"s3">>
    /\ chatResp.conversationHistory[3].content.text[1].seg = "hello"
    /\ chatResp.conversationHistory[4].stickerIds = <<"s1">>
    /\ chatResp.stickerIds = <<"s1">>

-----------------------------------------------------------------------------
(* Exceptions *)

\* `new URL` or bucket.get throws for this URL
UrlRaises(u) == u.form \in {"bad", "empty"} \/ (u.form = "ok" /\ u.filePath = FailKey)
    \/ (u.form = "ok" /\ u.filename = FailKey)

\* An exception is raised while the images of the request are resolved
RaisedWhileResolving(r) ==
    \/ \E i \in 1..Len(r.avatarCreation.referenceImages) :
          UrlRaises(r.avatarCreation.referenceImages[i].url)
    \/ /\ r.route = "sticker" /\ HasGeneratedAvatar(r.avatarCreation)
       /\ UrlRaises(r.avatarCreation.generatedAvatar.url)

\* atob throws on the image payload the handler picks
DecodeRaises(resp) ==
    /\ ImageIndexes(resp) # {}
    /\ AtobThrows(resp.parts[FirstImageIndex(resp)].inlineData.data)

\* The generation handler answered 500 and left the bucket as it was
Gen500 == gpc = "done" /\ httpResp.status = 500 /\ putCount = 0 /\ store = InitStore

\* What holds of the exceptions raised outside the image loops
OuterExceptionsGive500 ==
    /\ (gpc # "idle" /\ greq # NoRequest /\ ~greq.bodyOk) => Gen500
    /\ (gpc = "done" /\ modelResp.kind = "throws") => Gen500
    /\ (gpc = "done" /\ DecodeRaises(modelResp)) => Gen500
    /\ (gpc = "done" /\ modelResp # NoResponse /\ httpResp.status # 200) => Gen500
    /\ (cpc = "done" /\ chatCalls = 1 /\ modelText.threw) => chatResp.status = 500
    /\ (cpc = "done" /\ chatCalls = 1 /\ ~modelText.threw
          /\ parsedResponse.stickerIds.type \notin {"array", "undefined"}) =>
             chatResp.status = 500

-----------------------------------------------------------------------------
(* C21: order of the sections of the composed prompt *)

\* The section a piece of the prompt opens or belongs to: 1 intent, 2 character
\* design, 3 sticker facts, 4 brand context, 5 technical constraints, 6 image
\* clause; 0 for the pieces that carry a value or belong to no listed section
SectionRank(piece) ==
    CASE piece \in {"AVATAR_INTENT", "STICKER_INTENT"} -> 1
      [] piece \in {"=== AVATAR CHARACTER DESIGN (PRIMARY) ===\n",
                    "\n=== AVATAR CHARACTER DESIGN (SUPPORTING CONTEXT) ===\n",
                    "Avatar Description: ", "Avatar Personality: ",
                    "Color Palette: "} -> 2
      [] piece \in {"=== STICKER SPECIFIC DETAILS ===\n", "Sticker Name: ",
                    "Usage Scenario: ", "Description: ", "Additional Notes: "} -> 3
      [] piece \in {"\n=== BRAND CONTEXT (SUPPORTING) ===\n",
                    "\n=== BRAND CONTEXT (ADDITIONAL SUPPORT) ===\n",
                    "Avatar Type: ", "Purpose: ", "Avatar Purpose: ",
                    "Personality Traits: "} -> 4
      [] piece \in {"AVATAR_TECHNICAL_REQUIREMENTS",
                    "STICKER_TECHNICAL_REQUIREMENTS"} -> 5
      [] piece \in {AvatarRefClause, StickerAvatarClause, StickerRefClause} -> 6
      [] OTHER -> 0

SectionsInOrder(text) ==
    \A i, j \in 1..Len(text) :
        (i < j /\ SectionRank(text[i]) > 0 /\ SectionRank(text[j]) > 0)
            => SectionRank(text[i]) <= SectionRank(text[j])

\* C21: the composed prompt emits its sections in the order intent, character
\* design facts, sticker facts (sticker only), brand context, technical
\* constraints, image clause, whichever optional fields are present, in the
\* avatar prompt and in the sticker prompt.
C21_FixedOrder ==
    (gpc = "calling" /\ prompt # <<>>) => SectionsInOrder(prompt)

\* A sticker prompt with every optional field given: the sticker facts stand
\* before the character design facts
C21_Witness ==
    /\ gpc = "calling" /\ greq.route = "sticker"
    /\ Contains(prompt, "Additional Notes: ")
    /\ Contains(prompt, "Avatar Description: ")
    /\ Contains(prompt, StickerAvatarClause)
    /\ ~SectionsInOrder(prompt)

\* The avatar prompt keeps the order, with and without its optional fields
C21_AvatarInOrder ==
    (gpc = "calling" /\ greq.route = "avatar") => SectionsInOrder(prompt)


-----------------------------------------------------------------------------
(* C22: what a missing optional field leaves in the prompt *)

\* Label of an optional text field and the field's value in the request
OptionalFields(r) ==
    { <<"Avatar Description: ", r.avatarCreation.description>>,
      <<"Avatar Personality: ", r.avatarCreation.personality>>,
      <<"Avatar Type: ", r.brandIdentity.avatarType>>,
      <<IF r.route = "avatar" THEN "Purpose: " ELSE "Avatar Purpose: ",
        r.brandIdentity.avatarDescription>> }
    \cup (IF r.route = "sticker"
          THEN { <<"Description: ", r.stickerData.description>>,
                 <<"Additional Notes: ", r.stickerData.notes>> }
          ELSE {})

NoColorGiven(r) ==
    \A i \in 1..Len(r.avatarCreation.colorPalette) :
        ~Truthy(r.avatarCreation.colorPalette[i][2])

DesignSectionEmpty(r) ==
    /\ ~Truthy(r.avatarCreation.description)
    /\ ~Truthy(r.avatarCreation.personality)
    /\ NoColorGiven(r)

BrandSectionEmpty(r) ==
    /\ ~Truthy(r.brandIdentity.avatarType)
    /\ ~Truthy(r.brandIdentity.avatarDescription)
    /\ (r.route = "sticker" => Len(r.brandIdentity.personalityTraits) = 0)

DesignHeaders ==
    {"=== AVATAR CHARACTER DESIGN (PRIMARY) ===\n",
     "\n=== AVATAR CHARACTER DESIGN (SUPPORTING CONTEXT) ===\n"}
BrandHeaders ==
    {"\n=== BRAND CONTEXT (SUPPORTING) ===\n",
     "\n=== BRAND CONTEXT (ADDITIONAL SUPPORT) ===\n"}

NoLabelForMissing(r, text) ==
    /\ \A f \in OptionalFields(r) : ~Truthy(f[2]) => ~Contains(text, f[1])
    /\ NoColorGiven(r) => ~Contains(text, "Color Palette: ")
    /\ ~Contains(text, "undefined") /\ ~Contains(text, "")

NoEmptySection(r, text) ==
    /\ DesignSectionEmpty(r) => \A h \in DesignHeaders : ~Contains(text, h)
    /\ BrandSectionEmpty(r) => \A h \in BrandHeaders : ~Contains(text, h)

\* C22: a missing optional field contributes nothing to the composed prompt:
\* no label line, no placeholder such as 'undefined' or an empty value, and no
\* section header when every field of the section is absent.
C22_MissingContributesNothing ==
    gpc = "calling" => NoLabelForMissing(greq, prompt) /\ NoEmptySection(greq, prompt)

\* A request with no optional field given: no label and no placeholder is
\* left, but both section headers are in the prompt with nothing under them
C22_Witness ==
    /\ gpc = "calling" /\ greq.route = "avatar"
    /\ DesignSectionEmpty(greq) /\ BrandSectionEmpty(greq)
    /\ NoLabelForMissing(greq, prompt)
    /\ Contains(prompt, "=== AVATAR CHARACTER DESIGN (PRIMARY) ===\n")
    /\ Contains(prompt, "\n=== BRAND CONTEXT (SUPPORTING) ===\n")

\* The label lines alone: none is left for a missing field
C22_NoLabelLeft ==
    gpc = "calling" => NoLabelForMissing(greq, prompt)


-----------------------------------------------------------------------------
(* C23: the composition is a function of the request and the bucket *)

SameInputs(a, b) == a.req = b.req /\ a.store = b.store

-----------------------------------------------------------------------------
(* C24: removeWhiteBackground applied again *)

\* C24: removeWhiteBackground with threshold T leaves data that it has already
\* processed with the same T as it is: calling it again changes no byte.
C24_Idempotent ==
    passes >= 1 => data = firstPass

\* Two pixels, the first white and made transparent by the first call, the
\* second not white and still opaque after the second call
C24_Witness ==
    /\ passes = 2 /\ Len(data) = 8
    /\ image[4] = 255 /\ firstPass[4] = 0 /\ data[4] = 0
    /\ ~IsWhite(image, 5, threshold) /\ data[8] = 255


-----------------------------------------------------------------------------
(* C25: two concurrent additions *)

HasItem(list, item) == \E i \in 1..Len(list) : list[i] = item

BothAnswered(p, q, op, status) ==
    /\ p # q
    /\ kvp[p].pc = "done" /\ kvp[q].pc = "done"
    /\ kvp[p].op = op /\ kvp[q].op = op
    /\ kvp[p].status = status /\ kvp[q].status = status

BothSavedTo(p, q) ==
    /\ BothAnswered(p, q, "save", 200)
    /\ kvp[p].groupId = kvp[q].groupId
    /\ SavesConfig(kvp[p].input) /\ SavesConfig(kvp[q].input)

\* C25: after any interleaving of two addGroup calls, or of two addConfig
\* calls on the same group, of one user that both complete, both new entries
\* are in the stored list: no read-modify-write loses an entry.
C25_NoLostEntry ==
    \A p, q \in Procs :
        /\ BothAnswered(p, q, "addGroup", 201) =>
              HasItem(kvGroups, kvp[p].item) /\ HasItem(kvGroups, kvp[q].item)
        /\ BothSavedTo(p, q) =>
              /\ HasItem(kvConfigs[kvp[p].groupId], kvp[p].item)
              /\ HasItem(kvConfigs[kvp[p].groupId], kvp[q].item)

\* Both POST /sticker-groups requests were answered 201 with their own new
\* group, and the stored list holds the second one only
C25_Witness ==
    /\ BothAnswered("p1", "p2", "addGroup", 201)
    /\ kvp["p1"].item.id # kvp["p2"].item.id
    /\ ~HasItem(kvGroups, kvp["p1"].item)
    /\ HasItem(kvGroups, kvp["p2"].item)
    /\ Len(kvGroups) = Len(InitGroups) + 1

\* The same for two configurations saved to one group
C25_ConfigLost ==
    /\ BothSavedTo("p1", "p2")
    /\ ~HasItem(kvConfigs[kvp["p1"].groupId], kvp["p1"].item)
    /\ HasItem(kvConfigs[kvp["p1"].groupId], kvp["p2"].item)

\* One after the other, both entries are kept
C25_SequentialKept ==
    /\ BothAnswered("p1", "p2", "addGroup", 201)
    /\ HasItem(kvGroups, kvp["p1"].item) /\ HasItem(kvGroups, kvp["p2"].item)


-----------------------------------------------------------------------------
(* C26: which configuration the readers get *)

\* The step in which request p reads the configuration list and answers 200
\* with a configuration
ReadsConfig(p) ==
    /\ kvp[p].pc = "getConfigs" /\ kvp'[p].pc = "done"
    /\ kvp'[p].status = 200 /\ kvp'[p].latest # NoItem

\* The step in which POST /chat builds its catalog
BuildsCatalog == cpc = "idle" /\ cpc' = "done" /\ catalog' # <<>>

\* C26: the configuration read for a group is the most recently saved one:
\* once POST /sticker-groups/:id has put its input X, the head of the group's
\* list is X until a later save, and /chat, /chat/stickers/:groupId and
\* GET /sticker-groups/:id take that head, never an older configuration.
C26_LatestConfigRead ==
    [][ /\ \A g \in ChatGroupIds :
              kvConfigs'[g] # <<>> => kvConfigs'[g][1] = lastSaved'[g]
        /\ \A p \in Procs :
              ReadsConfig(p) => kvp'[p].latest = lastSaved[kvp[p].groupId]
        /\ BuildsCatalog =>
              catalog' = StickerContext(lastSaved[creq'.groupId].stickers) ]_vars

\* Two configurations were saved to g4 one after the other; the chat request
\* that came after both built its catalog from the second
C26_Witness ==
    /\ BothSavedTo("p1", "p2")
    /\ kvp["p1"].groupId = "g4"
    /\ kvConfigs["g4"] = <<kvp["p2"].item, kvp["p1"].item>>
    /\ kvp["p1"].item.stickers # kvp["p2"].item.stickers
    /\ kvp["p2"].latest = kvp["p2"].item
    /\ cpc = "done" /\ creq.groupId = "g4"
    /\ catalog = StickerContext(kvp["p2"].item.stickers)


-----------------------------------------------------------------------------
(* C27: ids of generated stickers *)

StickersWritten == { i \in 1..Len(written) : written[i].key.kind = "sticker" }

\* C27: any two successful generate-sticker calls return stickers with
\* different ids, also when both complete within the same millisecond.
C27_DistinctStickerIds ==
    \A i, j \in StickersWritten : i # j => written[i].id # written[j].id

\* Two stickers generated within one millisecond: stored under different
\* keys, returned with the same id
C27_Witness ==
    /\ Len(written) = 2 /\ StickersWritten = {1, 2}
    /\ written[1].key # written[2].key
    /\ written[1].id = written[2].id
    /\ written[1].key \in DOMAIN store /\ written[2].key \in DOMAIN store

\* Generated in different milliseconds the ids differ
C27_LaterIdDiffers ==
    /\ Len(written) = 2 /\ StickersWritten = {1, 2}
    /\ written[1].id # written[2].id


-----------------------------------------------------------------------------
(* C29: configurations and the group list *)

\* No /sticker-groups request is between two of its awaits
Quiescent == \A p \in Procs : kvp[p].pc \in {"idle", "done"}

OrphanConfigs(g) == kvConfigs[g] # <<>> /\ ~GroupFound(kvGroups, g)

\* C29: whatever the interleaving of POST /sticker-groups,
\* POST /sticker-groups/:id and DELETE /sticker-groups/:id requests of one
\* user, a configuration list is stored only for groups of the user's group
\* list: none is left behind or created for a deleted or unknown group.
C29_ConfigsOnlyForGroups ==
    Quiescent => \A g \in ChatGroupIds : ~OrphanConfigs(g)

\* DELETE of g4 was answered 200 and the POST that saved a configuration to
\* g4 has ended: g4 is not in the group list, its configuration is stored
C29_Witness ==
    /\ Quiescent
    /\ \E p, q \in Procs :
          /\ kvp[p].op = "delete" /\ kvp[p].status = 200 /\ kvp[p].groupId = "g4"
          /\ kvp[q].op = "save" /\ kvp[q].groupId = "g4" /\ kvp[q].status = 500
          /\ kvConfigs["g4"] = <<kvp[q].item>>
    /\ OrphanConfigs("g4")

\* A POST to a group that is not in the list stores nothing
C29_UnknownGroupUntouched == kvConfigs["gX"] = <<>>


-----------------------------------------------------------------------------
(* C28: who may delete a reference image *)

Removed == DOMAIN refStore \ DOMAIN refStore'

\* C28: DELETE /reference-images removes an object only when the caller has a
\* session and the object was uploaded by that same user: a request made with
\* the session of user A never deletes an object stored under the upload
\* prefix of another user B, and a request answered 400 or 403 leaves the
\* store unchanged.
C28_OnlyOwnObjectsDeleted ==
    [][ /\ \A k \in Removed :
              refResp'.userId # NoUser /\ refStore[k].uploadedBy = refResp'.userId
        /\ (refResp'.route = "delete" /\ refResp'.status \in {400, 403})
              => refStore' = refStore ]_vars

\* The user with id "a" has deleted the object uploaded by the user with id
\* "a/b", stored under ref-images/a/b/
C28_Witness ==
    /\ refResp.route = "delete" /\ refResp.status = 200
    /\ refResp.userId = <<"a">>
    /\ refResp.filePath = RefFilename(<<"a", "b">>, 0, "r7", "png")
    /\ refResp.filePath \notin DOMAIN refStore
    /\ RefFilename(<<"a">>, 0, "r7", "png") \in DOMAIN refStore

\* Between users whose ids are no path prefix of one another, and for the
\* rejected requests, the statement holds
C28_UnrelatedUsersKept ==
    [][ /\ \A k \in Removed :
              \/ refStore[k].uploadedBy = refResp'.userId
              \/ StartsWithUserPrefix(<<"ref-images">> \o refStore[k].uploadedBy \o <<"f">>,
                                      refResp'.userId)
        /\ (refResp'.route = "delete" /\ refResp'.status \in {400, 403})
              => refStore' = refStore ]_vars


-----------------------------------------------------------------------------
(* C30: sendMessage of the chat UI *)

UserMessages == { i \in 1..Len(messages) : messages[i].isUser }

\* The step in which sendMessage starts a request
StartsRequest == inFlight' > inFlight

\* C30: sendMessage starts a request only when the input is non-empty and no
\* request is in flight, so at most one /chat request is outstanding at any
\* time; exactly one user message is appended for that send; and whatever the
\* outcome of the request, the loading flag is eventually reset to false.
C30_SendMessage ==
    /\ [](inFlight <= 1 /\ (inFlight = 1 => isLoading)
          /\ Cardinality(UserMessages) = sends)
    /\ [][StartsRequest =>
            /\ Trim(inputMessage) # <<>> /\ inFlight = 0 /\ ~isLoading
            /\ messages' = Append(messages, UiMessage(Trim(inputMessage), TRUE, <<>>))]_vars
    /\ (inFlight = 1 ~> (inFlight = 0 /\ ~isLoading))

\* Two messages were sent one after the other, the first typed with spaces
\* around it; the second request failed and the loading flag is down again
C30_Witness ==
    /\ sends = 2 /\ inFlight = 0 /\ ~isLoading
    /\ Cardinality(UserMessages) = 2
    /\ messages[1] = UiMessage(<<"y", "o">>, TRUE, <<>>)
    /\ messages[Len(messages)] = UiMessage(ErrorText, FALSE, <<>>)

=============================================================================
